---- MODULE Spec2Model ----
(***************************************************************************)
(* A model of the invoice chaincode: the world state (one key-value        *)
(* ledger), the invoice repository (CreateInvoice / UpdateInvoice /        *)
(* DeleteInvoice with provenance), the rolling-window wastage scan, the    *)
(* index engine and the transaction validator.  Every chaincode method is  *)
(* a pure operator from a ledger and its arguments to a result             *)
(* [ledger, err, ret]; the actions apply them.                             *)
(*                                                                         *)
(* Modelling conventions                                                   *)
(*  - A JSON document is a TLA+ record whose fields are the JSON names.    *)
(*    Fields no method ever reads (item_name, price_per_unit, total_price, *)
(*    total_amount) are left out.  []byte(json) and string(bytes) are the  *)
(*    document itself.                                                     *)
(*  - A date string is [fmt, day]: fmt says which layout the string is in  *)
(*    ("ymd" for 2006-01-02, "rfc" for RFC3339, "bad" for anything else),  *)
(*    day is the calendar day.  No string is in two layouts.               *)
(*  - A float64 is an exact fraction [n, d]; d = 0 encodes +Inf (n = 1),   *)
(*    -Inf (n = -1) and NaN (n = 0).  Rounding and the sign of zero are    *)
(*    not modelled.                                                        *)
(*  - The clock is [day, sec]; time.Now() reads it.                        *)
(*  - Rich queries are evaluated over every document of the world state,   *)
(*    whatever its key, as the state database does.                        *)
(***************************************************************************)
EXTENDS Integers, Sequences, FiniteSets, TLC

VARIABLES
    ledger,   \* world state: key -> document (DOMAIN ledger = the keys present)
    now,      \* the clock time.Now() reads: [day, sec]
    calls,    \* number of chaincode invocations so far
    last,     \* the last invocation: its name, arguments, error and return value
    deleteLog, \* history: the <<key, document>> snapshots successful deletes wrote
    pending,  \* the invocations in flight between two stub calls: client -> locals
    iterators, \* the query iterators of the invocation being stepped through
    fault     \* the stub call the ledger store currently fails: "none", "Get", ...

vars == <<ledger, now, calls, last, deleteLog, pending, fault, iterators>>

\* ---------------------------------------------------------------- bounds
MaxCalls == 3
\* the rounds of a query loop that are stepped through one by one
MaxRounds == 2
MaxSec == 1
MaxDay == 2
MaxQty == 2

\* ------------------------------------------------------------- float64
NaN == [n |-> 0, d |-> 0]
PosInf == [n |-> 1, d |-> 0]
NegInf == [n |-> -1, d |-> 0]

Abs(i) == IF i < 0 THEN -i ELSE i
Sign(i) == IF i < 0 THEN -1 ELSE IF i > 0 THEN 1 ELSE 0

RECURSIVE Gcd(_, _)
Gcd(a, b) == IF b = 0 THEN a ELSE Gcd(b, a % b)

\* the fraction n/d (d # 0) in lowest terms with a positive denominator
Frac(n, d) ==
    LET g == Gcd(Abs(n), Abs(d))
    IN  [n |-> (Sign(d) * n) \div g, d |-> Abs(d) \div g]

F(i) == [n |-> i, d |-> 1]
IsNaN(x) == x.d = 0 /\ x.n = 0
IsInf(x) == x.d = 0 /\ x.n # 0
IsFinite(x) == x.d # 0

FNeg(x) == [n |-> -x.n, d |-> x.d]

FAdd(x, y) ==
    IF IsNaN(x) \/ IsNaN(y) THEN NaN
    ELSE IF IsInf(x) /\ IsInf(y) THEN (IF x.n = y.n THEN x ELSE NaN)
    ELSE IF IsInf(x) THEN x
    ELSE IF IsInf(y) THEN y
    ELSE Frac(x.n * y.d + y.n * x.d, x.d * y.d)

FSub(x, y) == FAdd(x, FNeg(y))

FMul(x, y) ==
    IF IsNaN(x) \/ IsNaN(y) THEN NaN
    ELSE IF IsInf(x) \/ IsInf(y)
         THEN (IF x.n = 0 \/ y.n = 0 THEN NaN
               ELSE [n |-> Sign(x.n) * Sign(y.n), d |-> 0])
    ELSE Frac(x.n * y.n, x.d * y.d)

FDiv(x, y) ==
    IF IsNaN(x) \/ IsNaN(y) THEN NaN
    ELSE IF IsInf(x) THEN (IF IsInf(y) THEN NaN
                           ELSE [n |-> x.n * (IF y.n < 0 THEN -1 ELSE 1), d |-> 0])
    ELSE IF IsInf(y) THEN F(0)
    ELSE IF y.n = 0 THEN (IF x.n = 0 THEN NaN ELSE [n |-> Sign(x.n), d |-> 0])
    ELSE Frac(x.n * y.d, x.d * y.n)

\* x < y on float64: false whenever either side is NaN
FLt(x, y) ==
    IF IsNaN(x) \/ IsNaN(y) THEN FALSE
    ELSE IF IsInf(x) THEN (x.n < 0 /\ y # x)
    ELSE IF IsInf(y) THEN y.n > 0
    ELSE x.n * y.d < y.n * x.d

FGt(x, y) == FLt(y, x)
FLe(x, y) == ~IsNaN(x) /\ ~IsNaN(y) /\ ~FLt(y, x)
FGe(x, y) == FLe(y, x)

\* ---------------------------------------------------------------- dates
YMD(d) == [fmt |-> "ymd", day |-> d]
RFC(d) == [fmt |-> "rfc", day |-> d]
\* a string in neither layout, such as the capture adapter's "N/A"
BadDate == [fmt |-> "bad", day |-> 0]
\* the empty string
NoDate == [fmt |-> "empty", day |-> 0]

\* a > b on strings, for a in the 2006-01-02 layout: by day against a date in
\* either layout (an RFC3339 string of the same day is longer, hence greater),
\* greater than the empty string, less than a string that starts with a letter
StringGreater(a, b) ==
    IF b.fmt = "empty" THEN TRUE
    ELSE IF b.fmt = "bad" THEN FALSE
    ELSE a.day > b.day

LayoutYMD == "2006-01-02"
LayoutRFC3339 == "2006-01-02T15:04:05Z07:00"

\* time.Parse(layout, s): succeeds only on a string in that layout
TimeParse(layout, s) ==
    IF (layout = LayoutYMD /\ s.fmt = "ymd") \/ (layout = LayoutRFC3339 /\ s.fmt = "rfc")
    THEN [ok |-> TRUE, t |-> s.day]
    ELSE [ok |-> FALSE, t |-> 0]

ValidateDateFormat(dateStr, layout) == TimeParse(layout, dateStr)

\* time.Now().Format("20060102150405"): the clock to the second
FormatSeconds(t) == <<t.day, t.sec>>
\* time.Now().Format("2006-01-02")
FormatDate(t) == YMD(t.day)
\* time.Now().String(): nanoseconds and the monotonic reading make it differ
\* from one invocation to the next
TimeString(t, c) == <<t.day, t.sec, c>>

\* ------------------------------------------------------------ world state
EmptyLedger == [k \in {} |-> {}]
Absent(L, k) == k \notin DOMAIN L
GetState(L, k) == L[k]
PutState(L, k, v) == [x \in DOMAIN L \cup {k} |-> IF x = k THEN v ELSE L[x]]
DelState(L, k) == [x \in DOMAIN L \ {k} |-> L[x]]

Has(v, f) == f \in DOMAIN v

\* keys
InvoiceKey(id) == <<id>>
ProvenanceKey(id, stamp) == <<id, "_provenance_", stamp>>

\* ---------------------------------------------------------- validation
ValidateInvoiceType(invoiceType) ==
    IF invoiceType # "purchase" /\ invoiceType # "sales" THEN "InvalidType" ELSE "nil"

ValidateItem(item) ==
    IF ~item.is_food_item THEN "NotFoodItem" ELSE "nil"

\* the stub reached through ctx returns an error from the call op while the
\* store is in that fault
Fails(ctx, op) == ctx = op

\* ---------------------------------------------------------- provenance
CreateProvenanceRecord(L, existingData, recordID, t, c) ==
    PutState(L, recordID, [previous_state |-> existingData, timestamp |-> TimeString(t, c)])

\* ------------------------------------------------------------ documents
\* encoding/json of an Invoice of invoice.go (no prev_block_hash field)
Invoice(invoiceID, storeID, date, items, hash, timestamp, invoiceType) ==
    [invoice_id |-> invoiceID, store_id |-> storeID, date |-> date, items |-> items,
     transaction_hash |-> hash, timestamp |-> timestamp, invoice_type |-> invoiceType]

\* an Item of invoice.go
Item(itemID, quantity, expiryDate, isFoodItem, invoiceType) ==
    [item_id |-> itemID, quantity |-> quantity, expiry_date |-> expiryDate,
     is_food_item |-> isFoodItem, invoice_type |-> invoiceType]

\* the empty string in a timestamp or hash field
NoTime == <<>>
NoHash == <<>>

\* a field of a decoded document, or the zero value when the JSON has no such field
Field(v, f, zero) == IF f \in DOMAIN v THEN v[f] ELSE zero

\* json.Unmarshal(bytes, &invoice): the fields every method reads
DeserializeFromJSON(v) ==
    [invoice_id |-> Field(v, "invoice_id", ""),
     store_id |-> Field(v, "store_id", ""),
     date |-> Field(v, "date", NoDate),
     items |-> Field(v, "items", <<>>),
     transaction_hash |-> Field(v, "transaction_hash", NoHash),
     timestamp |-> Field(v, "timestamp", NoTime),
     invoice_type |-> Field(v, "invoice_type", "")]

\* the result of a method: the ledger it leaves, its error ("nil" = none), and
\* the values it returns beside the error, as a sequence
Result(L, err, ret) == [ledger |-> L, err |-> err, ret |-> ret]
NoValue == <<>>

\* ------------------------------------------------- invoice repository
\* the validation loop of CreateInvoice from item i on: the first error, or "nil"
RECURSIVE CheckItems(_, _, _)
CheckItemsFirstOnly(items, i, date) ==
    IF i > Len(items) \/ i > 1 THEN "nil"
    ELSE LET expiryDate == ValidateDateFormat(items[i].expiry_date, LayoutYMD)
             transactionDate == ValidateDateFormat(date, LayoutYMD)
         IN  IF ValidateItem(items[i]) # "nil" THEN ValidateItem(items[i])
             ELSE IF ~expiryDate.ok THEN "InvalidExpiryDateFormat"
             ELSE IF ~transactionDate.ok THEN "InvalidTransactionDateFormat"
             ELSE IF transactionDate.t > expiryDate.t THEN "ItemExpired"
             ELSE "nil"

CheckItems(items, i, date) ==
    IF i > Len(items) THEN "nil"
    ELSE LET expiryDate == ValidateDateFormat(items[i].expiry_date, LayoutYMD)
             transactionDate == ValidateDateFormat(date, LayoutYMD)
         IN  IF ValidateItem(items[i]) # "nil" THEN ValidateItem(items[i])
             ELSE IF ~expiryDate.ok THEN "InvalidExpiryDateFormat"
             ELSE IF ~transactionDate.ok THEN "InvalidTransactionDateFormat"
             ELSE IF transactionDate.t > expiryDate.t THEN "ItemExpired"
             ELSE CheckItems(items, i + 1, date)

\* CreateInvoice storing the invoice before it validates the request
CreateInvoiceWriteFirst(ctx, L, t, c, invoiceID, storeID, date, invoiceType, items) ==
    LET L1 == PutState(L, InvoiceKey(invoiceID),
                       Invoice(invoiceID, storeID, date, items, NoHash,
                               TimeString(t, c), invoiceType))
    IN  IF ValidateInvoiceType(invoiceType) # "nil"
        THEN Result(L1, ValidateInvoiceType(invoiceType), NoValue)
        ELSE Result(L1, CheckItems(items, 1, date), NoValue)

\* item.InvoiceType = invoiceType assigns to the loop's copy: the items are
\* stored as the caller gave them
CreateInvoice(ctx, L, t, c, invoiceID, storeID, date, invoiceType, items) ==
    IF ValidateInvoiceType(invoiceType) # "nil"
    THEN Result(L, ValidateInvoiceType(invoiceType), NoValue)
    ELSE IF CheckItems(items, 1, date) # "nil"
    THEN Result(L, CheckItems(items, 1, date), NoValue)
    ELSE IF Fails(ctx, "Put") THEN Result(L, "StoreError", NoValue)
    ELSE Result(PutState(L, InvoiceKey(invoiceID),
                         Invoice(invoiceID, storeID, date, items, NoHash,
                                 TimeString(t, c), invoiceType)),
                "nil", NoValue)

\* UpdateInvoice without the existence check
UpdateInvoiceUpsert(ctx, L, t, c, invoiceID, updatedInvoice) ==
    LET L1 == IF Absent(L, InvoiceKey(invoiceID)) THEN L
              ELSE CreateProvenanceRecord(L, GetState(L, InvoiceKey(invoiceID)),
                                          ProvenanceKey(invoiceID, FormatSeconds(t)), t, c)
    IN  Result(PutState(L1, InvoiceKey(invoiceID), updatedInvoice), "nil", NoValue)

UpdateInvoice(ctx, L, t, c, invoiceID, updatedInvoice) ==
    IF Fails(ctx, "Get") THEN Result(L, "StoreError", NoValue)
    ELSE IF Absent(L, InvoiceKey(invoiceID))
    THEN Result(L, "NotFound", NoValue)
    ELSE LET existingInvoiceJSON == GetState(L, InvoiceKey(invoiceID))
             provenanceRecordID == ProvenanceKey(invoiceID, FormatSeconds(t))
             L1 == CreateProvenanceRecord(L, existingInvoiceJSON, provenanceRecordID, t, c)
         IN  IF Fails(ctx, "Put") THEN Result(L, "StoreError", NoValue)
             ELSE Result(PutState(L1, InvoiceKey(invoiceID), updatedInvoice), "nil", NoValue)

DeleteInvoice(ctx, L, t, c, invoiceID) ==
    IF Fails(ctx, "Get") THEN Result(L, "StoreError", NoValue)
    ELSE IF Absent(L, InvoiceKey(invoiceID))
    THEN Result(L, "NotFound", NoValue)
    ELSE LET existingInvoiceJSON == GetState(L, InvoiceKey(invoiceID))
             provenanceRecordID == ProvenanceKey(invoiceID, FormatSeconds(t))
             L1 == CreateProvenanceRecord(L, existingInvoiceJSON, provenanceRecordID, t, c)
         IN  IF Fails(ctx, "Put") THEN Result(L, "StoreError", NoValue)
             ELSE IF Fails(ctx, "Del") THEN Result(L1, "StoreError", NoValue)
             ELSE Result(DelState(L1, InvoiceKey(invoiceID)), "nil", NoValue)

\* DeleteInvoice of the index chaincode: removes the live key, then logs the
\* deleted bytes under DELETED_{storeID}_{invoiceID}
DeletedKey(storeID, invoiceID) == <<"DELETED_", storeID, invoiceID>>

DeleteInvoiceV2(ctx, L, invoiceID) ==
    IF Fails(ctx, "Get") THEN Result(L, "StoreError", NoValue)
    ELSE IF Absent(L, InvoiceKey(invoiceID))
    THEN Result(L, "NotFound", NoValue)
    ELSE LET invoiceJSON == GetState(L, InvoiceKey(invoiceID))
             invoice == DeserializeFromJSON(invoiceJSON)
             L1 == DelState(L, InvoiceKey(invoiceID))
         IN  IF Fails(ctx, "Del") THEN Result(L, "StoreError", NoValue)
             ELSE IF Fails(ctx, "Put") THEN Result(L1, "StoreError", NoValue)
             ELSE Result(PutState(L1, DeletedKey(invoice.store_id, invoiceID), invoiceJSON),
                         "nil", NoValue)

\* ------------------------------------------------------- index chaincode
ItemKey(itemID, expiryDate) == [item_id |-> itemID, expiry_date |-> expiryDate]
ZeroItemKey == ItemKey("", NoDate)
KeyOf(item) == ItemKey(item.item_id, item.expiry_date)

\* an Item and an Invoice of the index chaincode (no is_food_item, float quantity,
\* prev_block_hash)
ItemV2(itemID, quantity, expiryDate, invoiceType) ==
    [item_id |-> itemID, quantity |-> quantity, expiry_date |-> expiryDate,
     invoice_type |-> invoiceType]

InvoiceV2(invoiceID, storeID, date, items, hash, timestamp, invoiceType, prev) ==
    [invoice_id |-> invoiceID, store_id |-> storeID, date |-> date, items |-> items,
     transaction_hash |-> hash, timestamp |-> timestamp, invoice_type |-> invoiceType,
     prev_block_hash |-> prev]

\* SHA-256 over invoiceID + storeID + date + timestamp, taken as injective
generateBlockHash(invoice) ==
    <<"sha256", invoice.invoice_id, invoice.store_id, invoice.date, invoice.timestamp>>

ValidityKey(storeID, itemKey) ==
    <<"TRANSACTION_VALIDITY_", storeID, itemKey.item_id, itemKey.expiry_date>>
InvalidKey(storeID, itemKey) ==
    <<"INVALID_", storeID, itemKey.item_id, itemKey.expiry_date>>
QualityIndexKey(storeID, itemKey) ==
    <<"QUALTIY_INDEX_", storeID, itemKey.item_id, itemKey.expiry_date>>
WastageIndexKey(storeID, itemKey) ==
    <<"WASTAGE_INDEX_", storeID, itemKey.item_id, itemKey.expiry_date>>

TransactionValidity(storeID, itemKey, valid, invalid) ==
    [store_id |-> storeID, item_key |-> itemKey,
     valid_transactions |-> valid, invalid_transactions |-> invalid]
\* TransactionValidity{}
ZeroTransactionValidity == TransactionValidity("", ZeroItemKey, 0, 0)

\* json.Marshal of a float64 fails on NaN and on the infinities
Marshals(x) == IsFinite(x)

\* does the document have an item with this item key ($elemMatch)
HasItem(v, itemKey) ==
    /\ Has(v, "items")
    /\ \E i \in 1..Len(v.items) : KeyOf(v.items[i]) = itemKey

\* the summed quantity of the items, from item i on, that carry the item key
RECURSIVE ItemQuantity(_, _, _)
ItemQuantity(items, i, itemKey) ==
    IF i > Len(items) THEN 0
    ELSE (IF KeyOf(items[i]) = itemKey THEN items[i].quantity ELSE 0)
         + ItemQuantity(items, i + 1, itemKey)

\* the summed quantity over the documents stored under keys
RECURSIVE SumQuantity(_, _, _)
SumQuantity(L, keys, itemKey) ==
    IF keys = {} THEN 0
    ELSE LET k == CHOOSE x \in keys : TRUE
         IN  ItemQuantity(L[k].items, 1, itemKey) + SumQuantity(L, keys \ {k}, itemKey)

\* the selector of GetTotalPurchases / GetTotalSales, over every document
TotalsSelector(v, storeID, itemKey, invoiceType) ==
    /\ Has(v, "store_id") /\ v.store_id = storeID
    /\ HasItem(v, itemKey)
    /\ Has(v, "invoice_type") /\ v.invoice_type = invoiceType

GetTotalPurchases(ctx, L, storeID, itemKey) ==
    IF Fails(ctx, "Query") THEN F(-1)
    ELSE
    F(SumQuantity(L, {k \in DOMAIN L : TotalsSelector(L[k], storeID, itemKey, "purchase")},
                  itemKey))

GetTotalSales(ctx, L, storeID, itemKey) ==
    IF Fails(ctx, "Query") THEN F(-1)
    ELSE
    F(SumQuantity(L, {k \in DOMAIN L : TotalsSelector(L[k], storeID, itemKey, "sales")},
                  itemKey))

\* the counters record with both counters raised
UpdateTransactionValidityBoth(ctx, L, storeID, itemKey, isValid) ==
    LET key == ValidityKey(storeID, itemKey)
        transactionValidity ==
            IF Absent(L, key) THEN TransactionValidity(storeID, itemKey, 0, 0)
            ELSE GetState(L, key)
    IN  Result(PutState(L, key, [transactionValidity EXCEPT !.valid_transactions = @ + 1,
                                                            !.invalid_transactions = @ + 1]),
               "nil", NoValue)

\* the first half of UpdateTransactionValidity: the record GetState returns, or
\* a fresh one with zero counters
ReadValidity(L, storeID, itemKey) ==
    IF Absent(L, ValidityKey(storeID, itemKey))
    THEN TransactionValidity(storeID, itemKey, 0, 0)
    ELSE GetState(L, ValidityKey(storeID, itemKey))

\* the second half with the counter raised by two
WriteValidityTwice(L, storeID, itemKey, transactionValidity, isValid) ==
    PutState(L, ValidityKey(storeID, itemKey),
             IF isValid
             THEN [transactionValidity EXCEPT !.valid_transactions = @ + 2]
             ELSE [transactionValidity EXCEPT !.invalid_transactions = @ + 2])

\* the second half of UpdateTransactionValidity: the count and the PutState
WriteValidity(L, storeID, itemKey, transactionValidity, isValid) ==
    PutState(L, ValidityKey(storeID, itemKey),
             IF isValid
             THEN [transactionValidity EXCEPT !.valid_transactions = @ + 1]
             ELSE [transactionValidity EXCEPT !.invalid_transactions = @ + 1])

UpdateTransactionValidity(ctx, L, storeID, itemKey, isValid) ==
    IF Fails(ctx, "Get") \/ Fails(ctx, "Put") THEN Result(L, "StoreError", NoValue)
    ELSE Result(WriteValidity(L, storeID, itemKey, ReadValidity(L, storeID, itemKey), isValid),
                "nil", NoValue)

\* reads the key itemKey.ItemID, logs what it holds, and deletes that key
MarkTransactionInvalid(ctx, L, storeID, itemKey) ==
    IF Fails(ctx, "Get") THEN Result(L, "StoreError", NoValue)
    ELSE IF Absent(L, InvoiceKey(itemKey.item_id))
    THEN Result(L, "InvoiceNotFound", NoValue)
    ELSE LET invoiceJSON == GetState(L, InvoiceKey(itemKey.item_id))
             U == UpdateTransactionValidity(ctx, L, storeID, itemKey, FALSE)
             L1 == U.ledger
             L2 == PutState(L1, InvalidKey(storeID, itemKey), invoiceJSON)
         IN  IF U.err # "nil" THEN U
             ELSE IF Fails(ctx, "Put") THEN Result(L1, "StoreError", NoValue)
             ELSE IF Fails(ctx, "Del") THEN Result(L2, "StoreError", NoValue)
             ELSE Result(DelState(L2, InvoiceKey(itemKey.item_id)), "nil", NoValue)

\* the loop of ValidateTransaction from item i on
RECURSIVE ValidateItemsFrom(_, _, _, _, _)
ValidateItemsFrom(ctx, L, t, invoice, i) ==
    IF i > Len(invoice.items) THEN Result(L, "nil", NoValue)
    ELSE LET itemKey == KeyOf(invoice.items[i])
             expired == StringGreater(FormatDate(t), invoice.items[i].expiry_date)
             R1 == IF expired THEN MarkTransactionInvalid(ctx, L, invoice.store_id, itemKey)
                   ELSE Result(L, "nil", NoValue)
             totalPurchases == GetTotalPurchases(ctx, R1.ledger, invoice.store_id, itemKey)
             totalSales == GetTotalSales(ctx, R1.ledger, invoice.store_id, itemKey)
             R2 == IF FGt(totalSales, totalPurchases)
                   THEN MarkTransactionInvalid(ctx, R1.ledger, invoice.store_id, itemKey)
                   ELSE Result(R1.ledger, "nil", NoValue)
         IN  IF R1.err # "nil" THEN Result(R1.ledger, "InvalidExpiredItem", NoValue)
             ELSE IF R2.err # "nil" THEN Result(R2.ledger, "InvalidSalesExceedPurchases", NoValue)
             ELSE ValidateItemsFrom(ctx, R2.ledger, t, invoice, i + 1)

ValidateTransaction(ctx, L, t, invoice) == ValidateItemsFrom(ctx, L, t, invoice, 1)

WastageIndex(itemKey, wastage, totalPurchase, totalSales) ==
    [item_key |-> itemKey, wastage |-> wastage,
     total_purchase |-> totalPurchase, total_sales |-> totalSales]

\* the loop of CalculateWastageIndex from item i on: the ledger it leaves (the
\* error of MarkTransactionInvalid is dropped) and the indices, in item order
RECURSIVE WastageIndicesFrom(_, _, _, _, _, _)
WastageIndicesFrom(ctx, L, storeID, items, i, acc) ==
    IF i > Len(items) THEN Result(L, "nil", acc)
    ELSE LET itemKey == KeyOf(items[i])
             totalPurchases == GetTotalPurchases(ctx, L, storeID, itemKey)
             totalSales == GetTotalSales(ctx, L, storeID, itemKey)
             wastage == FSub(totalPurchases, totalSales)
             L1 == IF FGt(totalSales, totalPurchases)
                   THEN MarkTransactionInvalid(ctx, L, storeID, itemKey).ledger
                   ELSE L
             wastageIndex ==
                 WastageIndex(itemKey, FMul(FDiv(wastage, totalPurchases), F(100)),
                              totalPurchases, totalSales)
         IN  WastageIndicesFrom(ctx, L1, storeID, items, i + 1, Append(acc, wastageIndex))

CalculateWastageIndex(ctx, L, storeID, items) == WastageIndicesFrom(ctx, L, storeID, items, 1, <<>>)

RECURSIVE SumWastage(_, _)
SumWastage(wastageIndices, i) ==
    IF i > Len(wastageIndices) THEN F(0)
    ELSE FAdd(wastageIndices[i].wastage, SumWastage(wastageIndices, i + 1))

\* quality index = 1 / average wastage index; never an error
CalculateQualityIndexV2(wastageIndices) ==
    LET averageWastageIndex == FDiv(SumWastage(wastageIndices, 1), F(Len(wastageIndices)))
    IN  FDiv(F(1), averageWastageIndex)

GetTransactionValidity(ctx, L, storeID, itemKey) ==
    IF Fails(ctx, "Get") THEN Result(L, "StoreError", ZeroTransactionValidity)
    ELSE IF Absent(L, ValidityKey(storeID, itemKey))
    THEN Result(L, "ValidityNotFound", ZeroTransactionValidity)
    ELSE Result(L, "nil", GetState(L, ValidityKey(storeID, itemKey)))

\* the loop of CalculateEthicsIndex from index i on: [err, valid, invalid]
RECURSIVE ValidityTotalsFrom(_, _, _, _, _)
ValidityTotalsFrom(ctx, L, storeID, wastageIndices, i) ==
    IF i > Len(wastageIndices) THEN [err |-> "nil", valid |-> 0, invalid |-> 0]
    ELSE LET R == GetTransactionValidity(ctx, L, storeID, wastageIndices[i].item_key)
             rest == ValidityTotalsFrom(ctx, L, storeID, wastageIndices, i + 1)
         IN  IF R.err # "nil" THEN [err |-> R.err, valid |-> 0, invalid |-> 0]
             ELSE IF rest.err # "nil" THEN rest
             ELSE [err |-> "nil",
                   valid |-> R.ret.valid_transactions + rest.valid,
                   invalid |-> R.ret.invalid_transactions + rest.invalid]

\* ethics index = valid / (valid + invalid) * 100
CalculateEthicsIndexV2(ctx, L, storeID, wastageIndices) ==
    LET T == ValidityTotalsFrom(ctx, L, storeID, wastageIndices, 1)
    IN  IF T.err # "nil" THEN Result(L, T.err, F(0))
        ELSE Result(L, "nil", FMul(FDiv(F(T.valid), F(T.valid + T.invalid)), F(100)))

QualityIndexDoc(storeID, value) ==
    [store_id |-> storeID, item_key |-> ZeroItemKey, quality_index |-> value]

UpdateLedgerWithIndices(ctx, L, storeID, qualityIndex, wastageIndex, averageethicsIndex, transactionValidity) ==
    LET itemKey == wastageIndex.item_key
        value == FAdd(qualityIndex, averageethicsIndex)
        L1 == PutState(L, QualityIndexKey(storeID, itemKey), QualityIndexDoc(storeID, value))
        L2 == PutState(L1, WastageIndexKey(storeID, itemKey), wastageIndex)
    IN  IF ~Marshals(value) THEN Result(L, "UnsupportedValue", NoValue)
        ELSE IF Fails(ctx, "Put") THEN Result(L, "StoreError", NoValue)
        ELSE IF ~Marshals(wastageIndex.wastage) THEN Result(L1, "UnsupportedValue", NoValue)
        ELSE Result(PutState(L2, ValidityKey(storeID, itemKey), transactionValidity),
                    "nil", NoValue)

\* the closing loop of CreateOrUpdateInvoice from index i on
RECURSIVE UpdateIndicesFrom(_, _, _, _, _, _, _)
UpdateIndicesFrom(ctx, L, storeID, qualityIndex, wastageIndices, ethicsIndex, i) ==
    IF i > Len(wastageIndices) THEN Result(L, "nil", NoValue)
    ELSE LET R == UpdateLedgerWithIndices(ctx, L, storeID, qualityIndex, wastageIndices[i],
                                          ethicsIndex, ZeroTransactionValidity)
         IN  IF R.err # "nil" THEN R
             ELSE UpdateIndicesFrom(ctx, R.ledger, storeID, qualityIndex, wastageIndices,
                                    ethicsIndex, i + 1)

\* invoice: the request as decoded into the Invoice of the index chaincode
CreateOrUpdateInvoice(ctx, L, t, invoice) ==
    LET hashed == [invoice EXCEPT !.transaction_hash = generateBlockHash(invoice)]
        linked == IF Absent(L, InvoiceKey(invoice.invoice_id)) THEN hashed
                  ELSE [hashed EXCEPT
                          !.prev_block_hash = <<GetState(L, InvoiceKey(invoice.invoice_id))>>]
        V == ValidateTransaction(ctx, L, t, linked)
        L1 == PutState(V.ledger, InvoiceKey(linked.invoice_id), linked)
        W == CalculateWastageIndex(ctx, L1, linked.store_id, linked.items)
        qualityIndex == CalculateQualityIndexV2(W.ret)
        E == CalculateEthicsIndexV2(ctx, W.ledger, linked.store_id, W.ret)
    IN  IF Fails(ctx, "Get") THEN Result(L, "StoreError", NoValue)
        ELSE IF V.err # "nil" THEN V
        ELSE IF Fails(ctx, "Put") THEN Result(V.ledger, "StoreError", NoValue)
        ELSE IF E.err # "nil" THEN Result(W.ledger, E.err, NoValue)
        ELSE UpdateIndicesFrom(ctx, W.ledger, linked.store_id, qualityIndex, W.ret, E.ret, 1)

\* UpdateInvoice of the index chaincode: delete with its log, then create
UpdateInvoiceV2(ctx, L, t, invoice) ==
    IF Fails(ctx, "Get") THEN Result(L, "StoreError", NoValue)
    ELSE IF Absent(L, InvoiceKey(invoice.invoice_id))
    THEN Result(L, "NotFound", NoValue)
    ELSE LET D == DeleteInvoiceV2(ctx, L, invoice.invoice_id)
         IN  IF D.err # "nil" THEN D
             ELSE CreateOrUpdateInvoice(ctx, D.ledger, t, invoice)

\* ------------------------------------------------------ rolling window
\* the documents the query on items.item_id and items.expiry_date returns:
\* those with an item of that id and an item of that expiry date
ItemSelector(L, itemKey) ==
    {k \in DOMAIN L :
        /\ Has(L[k], "items")
        /\ \E i \in 1..Len(L[k].items) : L[k].items[i].item_id = itemKey.item_id
        /\ \E j \in 1..Len(L[k].items) : L[k].items[j].expiry_date = itemKey.expiry_date}

\* a first scan that accepts a key no returned invoice purchases
FirstPurchaseScanAnyType(L, keys, itemKey) ==
    IF \E k \in keys : ~ValidateDateFormat(DeserializeFromJSON(L[k]).date, LayoutYMD).ok
    THEN "InvalidInvoiceDateFormat"
    ELSE "nil"

\* the first scan: every returned invoice must carry a date in the 2006-01-02
\* layout, and some returned invoice must be a purchase of the item key
FirstPurchaseScan(L, keys, itemKey) ==
    IF \E k \in keys : ~ValidateDateFormat(DeserializeFromJSON(L[k]).date, LayoutYMD).ok
    THEN "InvalidInvoiceDateFormat"
    ELSE IF \E k \in keys : /\ DeserializeFromJSON(L[k]).invoice_type = "purchase"
                             /\ HasItem(L[k], itemKey)
    THEN "nil"
    ELSE "NoPurchaseData"

\* the second scan of the earlier revision: totals over the returned invoices
RECURSIVE WindowTotalsV0(_, _, _, _)
WindowTotalsV0(L, keys, itemKey, acc) ==
    IF keys = {} THEN acc
    ELSE LET k == CHOOSE x \in keys : TRUE
             invoice == DeserializeFromJSON(L[k])
             q == ItemQuantity(invoice.items, 1, itemKey)
         IN  WindowTotalsV0(L, keys \ {k}, itemKey,
                 IF invoice.invoice_type = "purchase"
                 THEN [acc EXCEPT !.totalPurchases = @ + q]
                 ELSE IF invoice.invoice_type = "sales"
                 THEN [acc EXCEPT !.totalSales = @ + q]
                 ELSE acc)

\* the earlier revision: no expiry filter, no comparison of the totals, no deletion
CalculateWastageInRollingWindowV0(L, itemID, expiryDate) ==
    LET itemKey == ItemKey(itemID, expiryDate)
        keys == ItemSelector(L, itemKey)
    IN  IF ~ValidateDateFormat(expiryDate, LayoutYMD).ok
        THEN Result(L, "InvalidExpiryDateFormat", NoValue)
        ELSE IF FirstPurchaseScan(L, keys, itemKey) # "nil"
        THEN Result(L, FirstPurchaseScan(L, keys, itemKey), NoValue)
        ELSE LET tot == WindowTotalsV0(L, keys, itemKey,
                                       [totalSales |-> 0, totalPurchases |-> 0])
             IN  Result(L, "nil", <<tot.totalPurchases - tot.totalSales>>)

\* deletes the key invoice.InvoiceID of every document the query returns
RECURSIVE InvalidateFrom(_, _, _)
InvalidateFrom(L, keys, docs) ==
    IF keys = {} THEN L
    ELSE LET k == CHOOSE x \in keys : TRUE
         IN  InvalidateFrom(DelState(L, InvoiceKey(DeserializeFromJSON(docs[k]).invoice_id)),
                            keys \ {k}, docs)

InvalidateTransactions(L, itemID, expiryDate) ==
    Result(InvalidateFrom(L, ItemSelector(L, ItemKey(itemID, expiryDate)), L),
           "nil", NoValue)

\* the second scan of the later revision, one returned invoice after the other:
\* the date is parsed in the 2006-01-02 layout and then in RFC3339, the expiry
\* in RFC3339; an invoice dated after the expiry is deleted and skipped
RECURSIVE WindowScan(_, _, _, _, _)
WindowScan(L, keys, docs, expiryDate, acc) ==
    IF keys = {} THEN [ledger |-> L, err |-> "nil", acc |-> acc]
    ELSE LET k == CHOOSE x \in keys : TRUE
             invoice == DeserializeFromJSON(docs[k])
             itemKey == ItemKey(acc.itemID, expiryDate)
             transactionTime == TimeParse(LayoutRFC3339, invoice.date)
             expiryTime == TimeParse(LayoutRFC3339, expiryDate)
             q == ItemQuantity(invoice.items, 1, itemKey)
         IN  IF ~ValidateDateFormat(invoice.date, LayoutYMD).ok
             THEN [ledger |-> L, err |-> "InvalidInvoiceDateFormat", acc |-> acc]
             ELSE IF ~transactionTime.ok
             THEN [ledger |-> L, err |-> "ErrorParsingTransactionDate", acc |-> acc]
             ELSE IF ~expiryTime.ok
             THEN [ledger |-> L, err |-> "ErrorParsingExpiryDate", acc |-> acc]
             ELSE IF transactionTime.t > expiryTime.t
             THEN WindowScan(DelState(L, InvoiceKey(invoice.invoice_id)), keys \ {k},
                             docs, expiryDate, acc)
             ELSE WindowScan(L, keys \ {k}, docs, expiryDate,
                      IF invoice.invoice_type = "sales"
                      THEN [acc EXCEPT !.totalSales = @ + q]
                      ELSE IF invoice.invoice_type = "purchase"
                      THEN [acc EXCEPT !.totalPurchases = @ + q]
                      ELSE acc)

\* the later revision
CalculateWastageInRollingWindow(L, itemID, expiryDate) ==
    LET itemKey == ItemKey(itemID, expiryDate)
        keys == ItemSelector(L, itemKey)
    IN  IF ~ValidateDateFormat(expiryDate, LayoutYMD).ok
        THEN Result(L, "InvalidExpiryDateFormat", NoValue)
        ELSE IF FirstPurchaseScan(L, keys, itemKey) # "nil"
        THEN Result(L, FirstPurchaseScan(L, keys, itemKey), NoValue)
        ELSE LET scan == WindowScan(L, keys, L, expiryDate,
                             [itemID |-> itemID, totalSales |-> 0, totalPurchases |-> 0])
             IN  IF scan.err # "nil"
                 THEN Result(scan.ledger, scan.err, NoValue)
                 ELSE IF scan.acc.totalSales > scan.acc.totalPurchases
                 THEN Result(InvalidateTransactions(scan.ledger, itemID, expiryDate).ledger,
                             "SalesExceedPurchases", NoValue)
                 ELSE Result(scan.ledger, "nil",
                             <<scan.acc.totalPurchases - scan.acc.totalSales>>)

\* ------------------------------------------- indices of the repository
BoundIndex(index) ==
    IF FLt(index, F(0)) THEN F(0)
    ELSE IF FGt(index, F(100)) THEN F(100)
    ELSE index

\* the items of an invoice from item i on, as CalculateEthicsIndex counts them
RECURSIVE EthicsItemsFrom(_, _, _, _, _)
EthicsItemsFrom(invoice, i, itemID, expiryDate, acc) ==
    IF i > Len(invoice.items) THEN acc
    ELSE IF acc.err # "nil" THEN acc
    ELSE IF ~(invoice.items[i].item_id = itemID /\ invoice.items[i].expiry_date = expiryDate)
    THEN EthicsItemsFrom(invoice, i + 1, itemID, expiryDate, acc)
    ELSE LET transactionTime == TimeParse(LayoutRFC3339, invoice.date)
             expiryTime == TimeParse(LayoutRFC3339, expiryDate)
         IN  IF ~transactionTime.ok
             THEN [acc EXCEPT !.err = "ErrorParsingTransactionDate"]
             ELSE IF ~expiryTime.ok
             THEN [acc EXCEPT !.err = "ErrorParsingExpiryDate"]
             ELSE EthicsItemsFrom(invoice, i + 1, itemID, expiryDate,
                      IF transactionTime.t > expiryTime.t
                      THEN [acc EXCEPT !.totalInvalidTransactions = @ + 1]
                      ELSE [acc EXCEPT !.totalValidTransactions = @ + 1])

\* the scan of CalculateEthicsIndex over the documents the query returns
RECURSIVE EthicsScan(_, _, _, _, _)
EthicsScan(L, keys, itemID, expiryDate, acc) ==
    IF keys = {} \/ acc.err # "nil" THEN acc
    ELSE LET k == CHOOSE x \in keys : TRUE
         IN  EthicsScan(L, keys \ {k}, itemID, expiryDate,
                        EthicsItemsFrom(DeserializeFromJSON(L[k]), 1, itemID, expiryDate, acc))

\* CalculateEthicsIndex of the repository chaincode
CalculateEthicsIndex(L, itemID, expiryDate) ==
    LET scan == EthicsScan(L, ItemSelector(L, ItemKey(itemID, expiryDate)), itemID, expiryDate,
                           [err |-> "nil", totalValidTransactions |-> 0,
                            totalInvalidTransactions |-> 0])
    IN  IF scan.err # "nil" THEN Result(L, scan.err, NoValue)
        ELSE IF scan.totalInvalidTransactions = 0 THEN Result(L, "nil", <<F(100)>>)
        ELSE Result(L, "nil",
                    <<BoundIndex(FDiv(F(scan.totalValidTransactions),
                                      F(scan.totalInvalidTransactions)))>>)

\* the items of an invoice from item i on, as CalculateQualityIndex scores them
RECURSIVE QualityItemsFrom(_, _, _, _)
QualityItemsFrom(L, items, i, acc) ==
    IF i > Len(items) \/ acc.err # "nil" THEN acc
    ELSE LET W == CalculateWastageInRollingWindow(L, items[i].item_id, items[i].expiry_date)
             E == CalculateEthicsIndex(W.ledger, items[i].item_id, items[i].expiry_date)
             wastageIndex == BoundIndex(FMul(FDiv(F(W.ret[1]), F(items[i].quantity)), F(100)))
             qualityIndex == BoundIndex(FAdd(FDiv(F(1), wastageIndex), E.ret[1]))
         IN  IF W.err # "nil" THEN [acc EXCEPT !.err = W.err, !.ledger = W.ledger]
             ELSE IF E.err # "nil" THEN [acc EXCEPT !.err = E.err, !.ledger = W.ledger]
             ELSE QualityItemsFrom(W.ledger, items, i + 1,
                      [acc EXCEPT !.ledger = W.ledger,
                                  !.totalQualityIndex = FAdd(@, qualityIndex),
                                  !.itemKeyCount = @ + 1])

\* the scan of CalculateQualityIndex over the documents of the store; a
\* document the scan deleted on its way is still in the query's result
RECURSIVE QualityScan(_, _, _)
QualityScan(docs, keys, acc) ==
    IF keys = {} \/ acc.err # "nil" THEN acc
    ELSE LET k == CHOOSE x \in keys : TRUE
         IN  QualityScan(docs, keys \ {k},
                         QualityItemsFrom(acc.ledger, DeserializeFromJSON(docs[k]).items, 1, acc))

\* CalculateQualityIndex of the repository chaincode
CalculateQualityIndex(L, storeID) ==
    LET keys == {k \in DOMAIN L : Has(L[k], "store_id") /\ L[k].store_id = storeID}
        scan == QualityScan(L, keys, [ledger |-> L, err |-> "nil",
                                      totalQualityIndex |-> F(0), itemKeyCount |-> 0])
    IN  IF scan.err # "nil" THEN Result(scan.ledger, scan.err, NoValue)
        ELSE IF scan.itemKeyCount = 0 THEN Result(scan.ledger, "NoItemsFound", NoValue)
        ELSE Result(scan.ledger, "nil",
                    <<FDiv(scan.totalQualityIndex, F(scan.itemKeyCount))>>)

\* ------------------------------------------- rewards and correctives
\* math.MaxFloat64, here a value above every quality index the inputs can store
MaxFloat64 == F(1000000)

\* the loop of the coefficient calculations over the records the query returned
RECURSIVE QualityRange(_, _, _)
QualityRange(L, keys, acc) ==
    IF keys = {} THEN acc
    ELSE LET k == CHOOSE x \in keys : TRUE
             q == L[k].quality_index
         IN  QualityRange(L, keys \ {k},
                          [minQualityIndex |-> IF FLt(q, acc.minQualityIndex) THEN q
                                               ELSE acc.minQualityIndex,
                           maxQualityIndex |-> IF FGt(q, acc.maxQualityIndex) THEN q
                                               ELSE acc.maxQualityIndex])

CalculateCorrectiveCoefficient(L) ==
    LET keys == {k \in DOMAIN L : Has(L[k], "quality_index") /\ FLe(L[k].quality_index, F(50))}
        r == QualityRange(L, keys, [minQualityIndex |-> MaxFloat64,
                                      maxQualityIndex |-> FNeg(MaxFloat64)])
    IN  IF r.minQualityIndex = F(0) THEN Result(L, "nil", <<r.maxQualityIndex>>)
        ELSE Result(L, "nil", <<FDiv(r.maxQualityIndex, r.minQualityIndex)>>)

\* the reward coefficient without the test for an empty range
CalculateRewardCoefficientUnchecked(L) ==
    LET keys == {k \in DOMAIN L : Has(L[k], "quality_index") /\ FGe(L[k].quality_index, F(80))}
        r == QualityRange(L, keys, [minQualityIndex |-> MaxFloat64,
                                      maxQualityIndex |-> FNeg(MaxFloat64)])
    IN  Result(L, "nil", <<FDiv(r.maxQualityIndex, r.minQualityIndex)>>)

CalculateRewardCoefficient(L) ==
    LET keys == {k \in DOMAIN L : Has(L[k], "quality_index") /\ FGe(L[k].quality_index, F(80))}
        r == QualityRange(L, keys, [minQualityIndex |-> MaxFloat64,
                                      maxQualityIndex |-> FNeg(MaxFloat64)])
    IN  IF r.minQualityIndex = MaxFloat64 THEN Result(L, "nil", <<F(0)>>)
        ELSE Result(L, "nil", <<FDiv(r.maxQualityIndex, r.minQualityIndex)>>)

\* the reward granted only strictly above 80
RewardAndCorrectiveSystemAbove(L, storeID, qualityIndex) ==
    LET Cs == CalculateCorrectiveCoefficient(L)
        Rs == CalculateRewardCoefficient(L)
    IN  IF FLt(qualityIndex, F(50))
        THEN Result(L, "nil", <<FMul(FNeg(Cs.ret[1]), FSub(F(50), qualityIndex))>>)
        ELSE IF FGt(qualityIndex, F(80))
        THEN Result(L, "nil", <<FMul(Rs.ret[1], FSub(qualityIndex, F(50)))>>)
        ELSE Result(L, "nil", <<F(0)>>)

RewardAndCorrectiveSystem(L, storeID, qualityIndex) ==
    LET Cs == CalculateCorrectiveCoefficient(L)
        Rs == CalculateRewardCoefficient(L)
    IN  IF Cs.err # "nil" THEN Result(L, "CorrectiveCoefficientFailed", NoValue)
        ELSE IF Rs.err # "nil" THEN Result(L, "RewardCoefficientFailed", NoValue)
        ELSE IF FLt(qualityIndex, F(50))
        THEN Result(L, "nil", <<FMul(FNeg(Cs.ret[1]), FSub(F(50), qualityIndex))>>)
        ELSE IF FGe(qualityIndex, F(80))
        THEN Result(L, "nil", <<FMul(Rs.ret[1], FSub(qualityIndex, F(50)))>>)
        ELSE Result(L, "nil", <<F(0)>>)

\* ------------------------------------------------------------- inputs
InvoiceIDs == {"I1", "A"}
ItemIDs == {"A"}
StoreIDs == {"S1", "S2"}
Days == 1..MaxDay
Quantities == 1..MaxQty

\* all sequences over S of length at most 2
Lists2(S) == {<<>>} \cup {<<x>> : x \in S} \cup {<<x, y>> : x \in S, y \in S}

\* ------------------------------------------------------------ actions
\* the clients that can have an invocation in flight, and none in flight
Clients == {"c1", "c2"}
IdleClient ==
    [pc |-> "idle", store |-> "", key |-> ZeroItemKey, valid |-> FALSE,
     read |-> ZeroTransactionValidity]
NoPending == [c \in Clients |-> IdleClient]

\* no invocation is being stepped through and no iterator is open
NoIterators ==
    [op |-> "none", pc |-> 0, round |-> 0, opened |-> 0, resultsIterator |-> 0,
     open |-> {}, deferred |-> <<>>, returned |-> FALSE, failed |-> FALSE]

NoCall == [op |-> "none", args |-> <<>>, err |-> "nil", ret |-> NoValue]

Init ==
    /\ fault = "none"
    /\ ledger = EmptyLedger
    /\ now \in [day : Days, sec : {0}]
    /\ calls = 0
    /\ last = NoCall
    /\ deleteLog = {}
    /\ pending = NoPending
    /\ iterators = NoIterators

\* the keys of L2 that L1 lacks or holds with another document
Written(L1, L2) == {k \in DOMAIN L2 : k \notin DOMAIN L1 \/ L1[k] # L2[k]}

\* the keys under which the system keeps provenance
IsProvenanceKey(k) == Len(k) = 3 /\ (k[2] = "_provenance_" \/ k[1] = "DELETED_")

DeleteOps == {"DeleteInvoice", "DeleteInvoiceV2"}

\* one chaincode invocation: the transaction commits what the method wrote
Invoke(op, args, R) ==
    /\ calls < MaxCalls
    /\ ledger' = R.ledger
    /\ calls' = calls + 1
    /\ last' = [op |-> op, args |-> args, err |-> R.err, ret |-> R.ret]
    /\ deleteLog' = IF op \in DeleteOps /\ R.err = "nil"
                    THEN deleteLog \cup {<<k, R.ledger[k]>> :
                                            k \in {x \in Written(ledger, R.ledger) :
                                                      IsProvenanceKey(x)}}
                    ELSE deleteLog
    /\ UNCHANGED <<now, pending, fault, iterators>>

TickSecond ==
    /\ now.sec < MaxSec
    /\ now' = [now EXCEPT !.sec = @ + 1]
    /\ UNCHANGED <<ledger, calls, last, deleteLog, pending, fault, iterators>>

TickDay ==
    /\ now.day < MaxDay
    /\ now' = [day |-> now.day + 1, sec |-> 0]
    /\ UNCHANGED <<ledger, calls, last, deleteLog, pending, fault, iterators>>

DoCreateInvoice(Requests) ==
    \E r \in Requests :
        Invoke("CreateInvoice", r,
               CreateInvoice(fault, ledger, now, calls, r.id, r.store, r.date, r.type, r.items))

DoUpdateInvoice(IDs, Docs) ==
    \E id \in IDs, doc \in Docs :
        Invoke("UpdateInvoice", [id |-> id, doc |-> doc],
               UpdateInvoice(fault, ledger, now, calls, id, doc))

DoDeleteInvoice(IDs) ==
    \E id \in IDs :
        Invoke("DeleteInvoice", [id |-> id], DeleteInvoice(fault, ledger, now, calls, id))

DoDeleteInvoiceV2(IDs) ==
    \E id \in IDs :
        Invoke("DeleteInvoiceV2", [id |-> id], DeleteInvoiceV2(fault, ledger, id))

DoCreateOrUpdateInvoice(Docs) ==
    \E doc \in Docs :
        Invoke("CreateOrUpdateInvoice", doc, CreateOrUpdateInvoice(fault, ledger, now, doc))

DoUpdateInvoiceV2(Docs) ==
    \E doc \in Docs :
        Invoke("UpdateInvoiceV2", doc, UpdateInvoiceV2(fault, ledger, now, doc))

DoUpdateTransactionValidity(Stores, Keys) ==
    \E storeID \in Stores, itemKey \in Keys, isValid \in BOOLEAN :
        Invoke("UpdateTransactionValidity",
               [store |-> storeID, key |-> itemKey, valid |-> isValid],
               UpdateTransactionValidity(fault, ledger, storeID, itemKey, isValid))

DoMarkTransactionInvalid(Stores, Keys) ==
    \E storeID \in Stores, itemKey \in Keys :
        Invoke("MarkTransactionInvalid", [store |-> storeID, key |-> itemKey],
               MarkTransactionInvalid(fault, ledger, storeID, itemKey))

DoCalculateWastageIndex(Stores, ItemLists) ==
    \E storeID \in Stores, items \in ItemLists :
        Invoke("CalculateWastageIndex", [store |-> storeID, items |-> items],
               CalculateWastageIndex(fault, ledger, storeID, items))

DoCalculateWastageInRollingWindow(Keys) ==
    \E key \in Keys :
        Invoke("CalculateWastageInRollingWindow", key,
               CalculateWastageInRollingWindow(ledger, key.item_id, key.expiry_date))

DoCalculateWastageInRollingWindowV0(Keys) ==
    \E key \in Keys :
        Invoke("CalculateWastageInRollingWindowV0", key,
               CalculateWastageInRollingWindowV0(ledger, key.item_id, key.expiry_date))

DoInvalidateTransactions(Keys) ==
    \E key \in Keys :
        Invoke("InvalidateTransactions", key,
               InvalidateTransactions(ledger, key.item_id, key.expiry_date))

\* ------------------------------------------ the invoice repository alone
DoCalculateEthicsIndex(Keys) ==
    \E key \in Keys :
        Invoke("CalculateEthicsIndex", key,
               CalculateEthicsIndex(ledger, key.item_id, key.expiry_date))

DoCalculateQualityIndex(Stores) ==
    \E storeID \in Stores :
        Invoke("CalculateQualityIndex", [store |-> storeID],
               CalculateQualityIndex(ledger, storeID))

DoCalculateEthicsIndexV2(Stores, IndexLists) ==
    \E storeID \in Stores, wastageIndices \in IndexLists :
        Invoke("CalculateEthicsIndexV2", [store |-> storeID, indices |-> wastageIndices],
               LET R == CalculateEthicsIndexV2(fault, ledger, storeID, wastageIndices)
               IN  Result(R.ledger, R.err, IF R.err = "nil" THEN <<R.ret>> ELSE NoValue))

DoCalculateQualityIndexV2(Stores, IndexLists) ==
    \E storeID \in Stores, wastageIndices \in IndexLists :
        Invoke("CalculateQualityIndexV2", [store |-> storeID, indices |-> wastageIndices],
               Result(ledger, "nil", <<CalculateQualityIndexV2(wastageIndices)>>))

DoUpdateLedgerWithIndices(Stores, Values) ==
    \E storeID \in Stores, qualityIndex \in Values :
        Invoke("UpdateLedgerWithIndices", [store |-> storeID, quality |-> qualityIndex],
               UpdateLedgerWithIndices(fault, ledger, storeID, qualityIndex,
                                       WastageIndex(ItemKey("A", YMD(1)), F(0), F(0), F(0)),
                                       F(0), ZeroTransactionValidity))

DoCalculateCorrectiveCoefficient ==
    Invoke("CalculateCorrectiveCoefficient", <<>>, CalculateCorrectiveCoefficient(ledger))

DoCalculateRewardCoefficient ==
    Invoke("CalculateRewardCoefficient", <<>>, CalculateRewardCoefficient(ledger))

DoRewardAndCorrectiveSystem(Stores, Values) ==
    \E storeID \in Stores, qualityIndex \in Values :
        Invoke("RewardAndCorrectiveSystem", [store |-> storeID, quality |-> qualityIndex],
               RewardAndCorrectiveSystem(ledger, storeID, qualityIndex))

DoBoundIndex(Values) ==
    \E index \in Values :
        Invoke("BoundIndex", index, Result(ledger, "nil", <<BoundIndex(index)>>))

\* UpdateTransactionValidity up to and including its GetState
BeginUpdateTransactionValidity(Stores, Keys) ==
    \E c \in Clients, storeID \in Stores, itemKey \in Keys, isValid \in BOOLEAN :
        /\ pending[c].pc # "read"
        /\ calls + Cardinality({d \in Clients : pending[d].pc = "read"}) < MaxCalls
        /\ pending' = [pending EXCEPT ![c] =
                          [pc |-> "read", store |-> storeID, key |-> itemKey, valid |-> isValid,
                           read |-> ReadValidity(ledger, storeID, itemKey)]]
        /\ UNCHANGED <<ledger, now, calls, last, deleteLog, fault, iterators>>

\* the rest of UpdateTransactionValidity: the count, the PutState and the return
FinishUpdateTransactionValidity ==
    \E c \in Clients :
        /\ pending[c].pc = "read"
        /\ ledger' = WriteValidity(ledger, pending[c].store, pending[c].key,
                                   pending[c].read, pending[c].valid)
        /\ pending' = [pending EXCEPT ![c].pc = "done"]
        /\ calls' = calls + 1
        /\ last' = [op |-> "UpdateTransactionValidity",
                    args |-> [store |-> pending[c].store, key |-> pending[c].key,
                              valid |-> pending[c].valid],
                    err |-> "nil", ret |-> NoValue]
        /\ UNCHANGED <<now, deleteLog, fault, iterators>>

\* the ledger store starts or stops failing one kind of stub call
SetFault(Kinds) ==
    \E kind \in Kinds \cup {"none"} :
        /\ fault # kind
        /\ fault' = kind
        /\ UNCHANGED <<ledger, now, calls, last, deleteLog, pending, iterators>>

\* the statements of each operation that open, scan or release a query
\* iterator, or that can return early, in program order: "query" is
\* GetQueryResult with its error return, "defer" is defer
\* resultsIterator.Close(), "loop" is the for HasNext loop with the error
\* returns of Next and of its body, "stmt" is any other statement with an
\* error return
IteratorProgram(op) ==
    CASE op = "CalculateWastageInRollingWindow" ->
            <<"stmt", "query", "defer", "loop", "stmt", "query", "defer", "loop", "stmt">>
      [] op = "CalculateWastageInRollingWindowV0" ->
            <<"stmt", "query", "defer", "loop", "stmt", "query", "defer", "loop">>
      [] op = "CalculateQualityIndex" -> <<"query", "defer", "loop", "stmt">>
      [] OTHER -> <<"query", "defer", "loop">>

IteratorOps ==
    {"CalculateWastageInRollingWindow", "CalculateWastageInRollingWindowV0",
     "CalculateQualityIndex", "InvalidateTransactions", "CalculateEthicsIndex",
     "GetTotalPurchases", "GetTotalSales", "CalculateCorrectiveCoefficient",
     "CalculateRewardCoefficient"}

\* a return that releases only the iterator the variable holds at that moment
RunDeferredOfVariable(it) ==
    [it EXCEPT !.open = @ \ {it.resultsIterator}, !.deferred = <<>>, !.returned = TRUE]

\* the function returns: the deferred Close calls run, each on the iterator
\* the variable held when its defer statement was executed
RunDeferred(it) ==
    [it EXCEPT !.open = @ \ {it.deferred[i] : i \in 1..Len(it.deferred)},
               !.deferred = <<>>, !.returned = TRUE]

\* an invocation of one of the operations starts
CallIteratorOp(Ops) ==
    \E op \in Ops :
        /\ iterators.pc = 0 \/ iterators.returned
        /\ iterators' = [NoIterators EXCEPT !.op = op, !.pc = 1]
        /\ UNCHANGED <<ledger, now, calls, last, deleteLog, pending, fault>>

\* the statement at pc completes without an error
StepIterator ==
    /\ iterators.pc \in 1..Len(IteratorProgram(iterators.op))
    /\ ~iterators.returned
    /\ LET stmt == IteratorProgram(iterators.op)[iterators.pc]
       IN  \/ /\ stmt = "stmt"
              /\ iterators' = [iterators EXCEPT !.pc = @ + 1]
           \/ /\ stmt = "query"
              /\ iterators' = [iterators EXCEPT !.pc = @ + 1, !.opened = @ + 1,
                                                !.resultsIterator = iterators.opened + 1,
                                                !.open = @ \cup {iterators.opened + 1}]
           \/ /\ stmt = "defer"
              /\ iterators' = [iterators EXCEPT !.pc = @ + 1,
                                                !.deferred = Append(@, iterators.resultsIterator)]
           \/ /\ stmt = "loop"
              /\ iterators.round < MaxRounds
              /\ iterators' = [iterators EXCEPT !.round = @ + 1]
           \/ /\ stmt = "loop"
              /\ iterators' = [iterators EXCEPT !.pc = @ + 1, !.round = 0]
    /\ UNCHANGED <<ledger, now, calls, last, deleteLog, pending, fault>>

\* the statement at pc returns an error: a failed GetQueryResult opens nothing
FailIterator ==
    /\ iterators.pc \in 1..Len(IteratorProgram(iterators.op))
    /\ ~iterators.returned
    /\ IteratorProgram(iterators.op)[iterators.pc] \in {"stmt", "query", "loop"}
    /\ iterators' = [RunDeferred(iterators) EXCEPT !.failed = TRUE]
    /\ UNCHANGED <<ledger, now, calls, last, deleteLog, pending, fault>>

\* the final return of the operation
ReturnIterator ==
    /\ iterators.pc = Len(IteratorProgram(iterators.op)) + 1
    /\ ~iterators.returned
    /\ iterators' = RunDeferred(iterators)
    /\ UNCHANGED <<ledger, now, calls, last, deleteLog, pending, fault>>

NextIterators ==
    \/ CallIteratorOp(IteratorOps)
    \/ StepIterator
    \/ FailIterator
    \/ ReturnIterator

SpecIterators == Init /\ [][NextIterators]_vars

RepoItems == {Item("A", 1, YMD(d), TRUE, "") : d \in 1..2}
RepoRequests ==
    [id : {"I1"}, store : {"S1"}, date : {YMD(2)},
     type : {"purchase"}, items : Lists2(RepoItems)]
    \cup [id : {"I1"}, store : {"S1"}, date : {YMD(1)},
          type : {"refund"}, items : {<<>>}]
RepoDocs ==
    {Invoice(id, "S1", YMD(1), <<Item("A", q, YMD(2), TRUE, "sales")>>, NoHash, NoTime, "sales") :
        id \in InvoiceIDs, q \in {1}}

RepoKeys == {ItemKey("A", YMD(2))}

NextRepo ==
    \/ DoCreateInvoice(RepoRequests)
    \/ DoUpdateInvoice(InvoiceIDs, RepoDocs)
    \/ DoDeleteInvoice(InvoiceIDs)
    \/ DoDeleteInvoiceV2(InvoiceIDs)
    \/ DoInvalidateTransactions(RepoKeys)
    \/ TickSecond
    \/ TickDay

SpecRepo == Init /\ [][NextRepo]_vars

\* the repository started with one invoice already recorded
SeedRequest ==
    [id |-> "I1", store |-> "S1", date |-> YMD(1), type |-> "purchase",
     items |-> <<Item("A", 1, YMD(2), TRUE, "")>>]

InitSeeded ==
    /\ fault = "none"
    /\ ledger = CreateInvoice("none", EmptyLedger, [day |-> 1, sec |-> 0], -1, SeedRequest.id,
                              SeedRequest.store, SeedRequest.date, SeedRequest.type,
                              SeedRequest.items).ledger
    /\ now = [day |-> 1, sec |-> 0]
    /\ calls = 0
    /\ last = [op |-> "CreateInvoice", args |-> SeedRequest, err |-> "nil", ret |-> NoValue]
    /\ deleteLog = {}
    /\ pending = NoPending
    /\ iterators = NoIterators

SpecRepoSeeded == InitSeeded /\ [][NextRepo]_vars

\* ---------------------------------------------------------- properties
Called(ops) == calls' # calls /\ last'.op \in ops

\* the request has an item whose expiry its date is strictly after
HasExpiredItem(r) ==
    /\ r.date.fmt = "ymd"
    /\ \E i \in 1..Len(r.items) :
          r.items[i].expiry_date.fmt = "ymd" /\ r.date.day > r.items[i].expiry_date.day

\* C1: CreateInvoice of an invoice dated strictly after the expiry of any of its
\* items, whatever the item's position, returns an error and leaves the ledger
\* exactly as it was.
C1_ExpiredItemRejectsInvoice ==
    [][(Called({"CreateInvoice"}) /\ HasExpiredItem(last'.args))
          => (last'.err # "nil" /\ ledger' = ledger)]_vars

\* a rejected invoice whose first item is fine and whose second item is expired,
\* on a ledger that already holds records
C1_Witness ==
    /\ last.op = "CreateInvoice"
    /\ calls > 1
    /\ Len(last.args.items) = 2
    /\ last.args.date.day <= last.args.items[1].expiry_date.day
    /\ last.args.date.day > last.args.items[2].expiry_date.day
    /\ last.err = "ItemExpired"
    /\ DOMAIN ledger # {}

\* the provenance keys a step adds
AddedProvenance(L1, L2) == {k \in DOMAIN L2 \ DOMAIN L1 : IsProvenanceKey(k)}
\* the pre-mutation bytes a provenance document holds
PreviousState(k, doc) == IF k[1] = "DELETED_" THEN doc ELSE doc.previous_state

\* C2: every successful UpdateInvoice or DeleteInvoice adds exactly one
\* provenance record that did not exist before, holding the bytes the live
\* record had immediately before the call.
C2_OneNewProvenanceRecord ==
    [][(Called({"UpdateInvoice", "DeleteInvoice", "DeleteInvoiceV2"}) /\ last'.err = "nil")
          => /\ Cardinality(AddedProvenance(ledger, ledger')) = 1
             /\ \A k \in AddedProvenance(ledger, ledger') :
                   PreviousState(k, ledger'[k]) = ledger[InvoiceKey(last'.args.id)]]_vars

\* C3: the provenance chain is append-only: a document once written under a
\* provenance key is never changed or removed by a later operation.
C3_ProvenanceAppendOnly ==
    [][\A k \in DOMAIN ledger :
          IsProvenanceKey(k) => (k \in DOMAIN ledger' /\ ledger'[k] = ledger[k])]_vars

\* C9: UpdateInvoice and DeleteInvoice of an invoiceID with no live record
\* return the not-found error and leave the whole ledger unchanged.
C9_MissingInvoiceNotFound ==
    [][(Called({"UpdateInvoice", "DeleteInvoice", "DeleteInvoiceV2"})
            /\ Absent(ledger, InvoiceKey(last'.args.id)))
          => (last'.err = "NotFound" /\ ledger' = ledger)]_vars

\* an update of a missing invoice was refused while another invoice and a
\* provenance record are on the ledger
C9_Witness ==
    /\ last.op = "UpdateInvoice"
    /\ last.err = "NotFound"
    /\ Absent(ledger, InvoiceKey(last.args.id))
    /\ \E k \in DOMAIN ledger : IsProvenanceKey(k)
    /\ \E k \in DOMAIN ledger : ~IsProvenanceKey(k)

\* C10: after a successful DeleteInvoice(id) the live record is absent, and
\* the provenance record that delete wrote is present, as written, in every
\* later state.
C10_DeleteKeepsProvenance ==
    /\ (last.op \in DeleteOps /\ last.err = "nil") => Absent(ledger, InvoiceKey(last.args.id))
    /\ \A p \in deleteLog : p[1] \in DOMAIN ledger /\ ledger[p[1]] = p[2]

\* ------------------------------------------------ the index chaincode
IndexKeys == {ItemKey("A", YMD(1))}
IndexItemLists ==
    {<<>>} \cup {<<ItemV2("A", q, YMD(1), "")>> : q \in Quantities}
IndexDocs ==
    {InvoiceV2(id, "S1", YMD(1), items, NoHash, NoTime, type, NoHash) :
        id \in InvoiceIDs, items \in IndexItemLists, type \in {"purchase", "sales"}}

NextIndex ==
    \/ DoCreateOrUpdateInvoice(IndexDocs)
    \/ DoUpdateInvoiceV2(IndexDocs)
    \/ DoDeleteInvoiceV2(InvoiceIDs)
    \/ DoUpdateTransactionValidity({"S1"}, IndexKeys)
    \/ DoMarkTransactionInvalid({"S1"}, IndexKeys)
    \/ DoCalculateWastageIndex({"S1"}, IndexItemLists)
    \/ TickSecond
    \/ TickDay

SpecIndex == Init /\ [][NextIndex]_vars

\* the live invoices: the documents under invoice keys
LiveKeys(L) == {k \in DOMAIN L : Len(k) = 1}

\* the summed quantity of the item key over the live invoices of a store and type
LiveTotal(L, storeID, itemKey, invoiceType) ==
    SumQuantity(L, {k \in LiveKeys(L) : TotalsSelector(L[k], storeID, itemKey, invoiceType)},
                itemKey)

Balanced(L, storeID, itemKey) ==
    LiveTotal(L, storeID, itemKey, "sales") <= LiveTotal(L, storeID, itemKey, "purchase")

\* C6: CreateOrUpdateInvoice never returns success having persisted a sales
\* invoice that makes the live sales of one of its (store, item, expiry) keys
\* exceed the live purchases of that key.
C6_AcceptedSalesWithinPurchases ==
    [][(/\ Called({"CreateOrUpdateInvoice"})
        /\ last'.err = "nil"
        /\ last'.args.invoice_type = "sales")
          => \A i \in 1..Len(last'.args.items) :
                Balanced(ledger, last'.args.store_id, KeyOf(last'.args.items[i]))
                   => Balanced(ledger', last'.args.store_id, KeyOf(last'.args.items[i]))]_vars

InRange(x) == FLe(F(0), x) /\ FLe(x, F(100))

\* C7: every index value the system publishes lies in [0, 100]: the
\* quality-index and wastage-index values on the ledger and the wastage
\* indices CalculateWastageIndex returns.
C7_PublishedIndicesInRange ==
    /\ \A k \in DOMAIN ledger :
          /\ k[1] = "QUALTIY_INDEX_" => InRange(ledger[k].quality_index)
          /\ k[1] = "WASTAGE_INDEX_" => InRange(ledger[k].wastage)
    /\ (last.op = "CalculateWastageIndex" /\ last.err = "nil")
          => \A i \in 1..Len(last.ret) : InRange(last.ret[i].wastage)

\* C8: the validCount and invalidCount counters of a TRANSACTION_VALIDITY
\* record never decrease and the record is never removed.
C8_ValidityCountersMonotone ==
    [][\A k \in DOMAIN ledger :
          k[1] = "TRANSACTION_VALIDITY_"
             => /\ k \in DOMAIN ledger'
                /\ ledger'[k].valid_transactions >= ledger[k].valid_transactions
                /\ ledger'[k].invalid_transactions >= ledger[k].invalid_transactions]_vars

\* ------------------------------------------------- the rolling window
WastageIDs == {"I1", "I2"}
WastageKeys == {ItemKey("A", YMD(MaxDay)), ItemKey("A", BadDate)}
WastageRequests ==
    [id : {"I1", "I2"}, store : StoreIDs, date : {YMD(1), YMD(MaxDay)},
     type : {"purchase", "sales"},
     items : {<<Item("A", q, YMD(MaxDay), TRUE, "")>> : q \in Quantities}]

NextWastage ==
    \/ DoCreateInvoice(WastageRequests)
    \/ DoDeleteInvoice(WastageIDs)
    \/ DoCalculateWastageInRollingWindow(WastageKeys)
    \/ DoCalculateWastageInRollingWindowV0(WastageKeys)
    \/ DoInvalidateTransactions(WastageKeys)
    \/ TickSecond
    \/ TickDay

SpecWastage == Init /\ [][NextWastage]_vars

WastageOps == {"CalculateWastageInRollingWindow", "CalculateWastageInRollingWindowV0"}

\* the live invoices that contain the item key
LiveWith(L, itemKey) == {k \in LiveKeys(L) : HasItem(L[k], itemKey)}

\* the summed quantity of the item key over the live invoices of a type
LiveTotalOfType(L, itemKey, invoiceType) ==
    SumQuantity(L, {k \in LiveWith(L, itemKey) : L[k].invoice_type = invoiceType}, itemKey)

\* the live invoices of the item key, a purchase among them, are all dated on
\* or before the expiry and sell more than they purchase
Oversold(L, itemKey) ==
    /\ itemKey.expiry_date.fmt = "ymd"
    /\ \E k \in LiveWith(L, itemKey) : L[k].invoice_type = "purchase"
    /\ \A k \in LiveWith(L, itemKey) :
          L[k].date.fmt = "ymd" /\ L[k].date.day <= itemKey.expiry_date.day
    /\ LiveTotalOfType(L, itemKey, "sales") > LiveTotalOfType(L, itemKey, "purchase")

\* C4: called on an item key whose live invoices, all dated on or before the
\* expiry, sell more than they purchase, CalculateWastageInRollingWindow returns
\* the sales-exceed-purchases error and leaves no live invoice containing the key.
C4_OversoldKeyInvalidated ==
    [][(Called(WastageOps) /\ Oversold(ledger, last'.args))
          => /\ last'.err = "SalesExceedPurchases"
             /\ LiveWith(ledger', last'.args) = {}]_vars

\* C5: after a CalculateWastageInRollingWindow that returns without error, every
\* store that still has a live invoice of the item key sells no more of it than
\* it purchased.
C5_SuccessLeavesStoresBalanced ==
    [][(Called(WastageOps) /\ last'.err = "nil")
          => \A storeID \in StoreIDs : Balanced(ledger', storeID, last'.args)]_vars

\* ------------------------------------------------- request validation
ValidationItemLists ==
    {<<>>,
     <<Item("A", 1, YMD(2), TRUE, "")>>,
     <<Item("A", 1, YMD(2), FALSE, "")>>,
     <<Item("A", 1, YMD(2), TRUE, ""), Item("A", 1, YMD(2), FALSE, "")>>,
     <<Item("A", 1, YMD(2), TRUE, ""), Item("A", 1, BadDate, TRUE, "")>>}
ValidationRequests ==
    [id : {"I1"}, store : {"S1"}, date : {YMD(1), RFC(1), BadDate},
     type : {"purchase", "refund"}, items : ValidationItemLists]

NextValidation ==
    \/ DoCreateInvoice(ValidationRequests)
    \/ DoDeleteInvoice({"I1"})
    \/ TickSecond
    \/ TickDay

SpecValidation == Init /\ [][NextValidation]_vars

\* a validator rejects a part of the request: the type, an item that is not a
\* food item, an item's expiry date, or the invoice date, which is parsed once
\* for each item
ValidatorRejects(r) ==
    \/ ValidateInvoiceType(r.type) # "nil"
    \/ \E i \in 1..Len(r.items) :
          \/ ValidateItem(r.items[i]) # "nil"
          \/ ~ValidateDateFormat(r.items[i].expiry_date, LayoutYMD).ok
          \/ ~ValidateDateFormat(r.date, LayoutYMD).ok

SeedSale ==
    InvoiceV2("A", "S1", YMD(1), <<ItemV2("A", 1, YMD(1), "")>>, NoHash, NoTime,
              "sales", NoHash)
SeedPurchase ==
    InvoiceV2("A", "S2", YMD(1), <<ItemV2("A", 1, YMD(1), "")>>, NoHash, NoTime,
              "purchase", NoHash)
InitIndexSeeded ==
    /\ fault = "none"
    /\ now = [day |-> 1, sec |-> 0]
    /\ calls = 0
    /\ deleteLog = {}
    /\ pending = NoPending
    /\ iterators = NoIterators
    /\ \E first \in {CreateOrUpdateInvoice("none", EmptyLedger, now, SeedSale)} :
          \E second \in {CreateOrUpdateInvoice("none", first.ledger, now, SeedPurchase)} :
             /\ ledger = second.ledger
             /\ last = [op |-> "CreateOrUpdateInvoice", args |-> SeedPurchase,
                        err |-> second.err, ret |-> NoValue]

SpecIndexSeeded == InitIndexSeeded /\ [][NextIndex]_vars

\* the computations of wastage, ethics and quality
RecomputeOps ==
    WastageOps \cup {"CalculateWastageIndex", "CalculateEthicsIndex", "CalculateEthicsIndexV2",
                     "CalculateQualityIndex", "CalculateQualityIndexV2"}

\* C12: recomputation is idempotent: a wastage, ethics or quality computation
\* invoked twice in succession with the same arguments, no other operation in
\* between, yields the same outcome both times (the same value or the same error).
C12_RecomputationIdempotent ==
    [][(Called(RecomputeOps) /\ last.op = last'.op /\ last.args = last'.args)
          => (last'.err = last.err /\ last'.ret = last.ret)]_vars

\* C13: every value CalculateWastageInRollingWindow returns without error is the
\* purchases minus the sales of the item key over the live invoices, and is
\* not negative.
C13_WastageIsPurchasesMinusSales ==
    [][(Called(WastageOps) /\ last'.err = "nil")
          => /\ last'.ret = <<LiveTotalOfType(ledger', last'.args, "purchase")
                               - LiveTotalOfType(ledger', last'.args, "sales")>>
             /\ last'.ret[1] >= 0]_vars

\* ------------------------------------------------------ ethics indices
\* the repository after two purchases were recorded and the first was replaced
\* by a document dated in the RFC3339 layout
EthicsDoc(id, date, type) ==
    Invoice(id, "S1", date, <<Item("A", 1, RFC(2), TRUE, type)>>, NoHash, NoTime, type)

EthicsSeed ==
    LET t == [day |-> 1, sec |-> 0]
        items == <<Item("A", 1, YMD(2), TRUE, "")>>
        L1 == CreateInvoice("none", EmptyLedger, t, -3, "I1", "S1", YMD(1), "purchase", items).ledger
        L2 == CreateInvoice("none", L1, t, -2, "A", "S1", YMD(1), "purchase", items).ledger
    IN  UpdateInvoice("none", L2, t, -1, "I1", EthicsDoc("I1", RFC(1), "purchase"))

InitEthics ==
    /\ fault = "none"
    /\ now = [day |-> 1, sec |-> 0]
    /\ ledger = EthicsSeed.ledger
    /\ calls = 0
    /\ last = [op |-> "UpdateInvoice",
               args |-> [id |-> "I1", doc |-> EthicsDoc("I1", RFC(1), "purchase")],
               err |-> EthicsSeed.err, ret |-> NoValue]
    /\ deleteLog = {}
    /\ pending = NoPending
    /\ iterators = NoIterators

EthicsDocs == {EthicsDoc("A", date, "sales") : date \in {RFC(1), RFC(3)}}
EthicsKeys == {ItemKey("A", RFC(2)), ItemKey("A", YMD(2))}
EthicsIndexLists == {<<>>, <<WastageIndex(ItemKey("A", YMD(2)), F(1), F(1), F(0))>>}

NextEthics ==
    \/ DoUpdateInvoice({"A"}, EthicsDocs)
    \/ DoCalculateEthicsIndex(EthicsKeys)
    \/ DoCalculateQualityIndex(StoreIDs)
    \/ DoUpdateTransactionValidity({"S1"}, RepoKeys)
    \/ DoCalculateEthicsIndexV2({"S1"}, EthicsIndexLists)
    \/ DoCalculateQualityIndexV2({"S1"}, EthicsIndexLists)
    \/ TickSecond
    \/ TickDay

SpecEthics == InitEthics /\ [][NextEthics]_vars

\* the transactions of an item key: the items of that key in the stored
\* invoices, each with the day of its invoice and the day of its expiry
TransactionsOf(L, itemKey) ==
    {<<k, i>> \in (DOMAIN L) \X (1..2) :
        /\ Has(L[k], "items") /\ Has(L[k], "date")
        /\ i <= Len(L[k].items)
        /\ KeyOf(L[k].items[i]) = itemKey}
DateValid(L, itemKey) ==
    Cardinality({x \in TransactionsOf(L, itemKey) : L[x[1]].date.day <= itemKey.expiry_date.day})
DateInvalid(L, itemKey) ==
    Cardinality({x \in TransactionsOf(L, itemKey) : L[x[1]].date.day > itemKey.expiry_date.day})

\* C14: for an item key with v date-valid and i > 0 date-invalid transactions,
\* CalculateEthicsIndex returns v / (v + i) x 100
C14_EthicsIsValidShare ==
    [][(Called({"CalculateEthicsIndex"}) /\ DateInvalid(ledger, last'.args) > 0)
          => last'.ret = <<FMul(FDiv(F(DateValid(ledger, last'.args)),
                                     F(DateValid(ledger, last'.args)
                                       + DateInvalid(ledger, last'.args))),
                                F(100))>>]_vars

\* the invalid transactions the validity records of the listed item keys count
RECURSIVE InvalidCounted(_, _, _, _)
InvalidCounted(L, storeID, wastageIndices, i) ==
    IF i > Len(wastageIndices) THEN 0
    ELSE (IF Absent(L, ValidityKey(storeID, wastageIndices[i].item_key)) THEN 0
          ELSE GetState(L, ValidityKey(storeID, wastageIndices[i].item_key)).invalid_transactions)
         + InvalidCounted(L, storeID, wastageIndices, i + 1)

\* C15: with zero invalid transactions (zero valid ones and a missing validity
\* record included) CalculateEthicsIndex returns exactly 100 and does not fail
C15_NoInvalidGivesHundred ==
    [][/\ (Called({"CalculateEthicsIndex"}) /\ DateInvalid(ledger, last'.args) = 0)
             => (last'.err = "nil" /\ last'.ret = <<F(100)>>)
       /\ (Called({"CalculateEthicsIndexV2"})
             /\ InvalidCounted(ledger, last'.args.store, last'.args.indices, 1) = 0)
             => (last'.err = "nil" /\ last'.ret = <<F(100)>>)]_vars

\* ---------------------------------------------- rewards and correctives
StoredQualities == {F(0), F(40), F(80), F(100)}
RatedQualities == {F(40), F(50), F(79), F(80), F(100)}

NextReward ==
    \/ DoUpdateLedgerWithIndices(StoreIDs, StoredQualities)
    \/ DoCalculateCorrectiveCoefficient
    \/ DoCalculateRewardCoefficient
    \/ DoRewardAndCorrectiveSystem({"S1"}, RatedQualities)
    \/ TickDay

SpecReward == Init /\ [][NextReward]_vars

\* the quality indices on record, those of 80 or more and those of 50 or less
Recorded(L) == {L[k].quality_index : k \in {x \in DOMAIN L : Has(L[x], "quality_index")}}
AtLeast80(L) == {q \in Recorded(L) : FGe(q, F(80))}
AtMost50(L) == {q \in Recorded(L) : FLe(q, F(50))}
\* hi / lo for the greatest and the least value of a non-empty set Q
IsMaxOverMin(v, Q) ==
    \E hi \in Q, lo \in Q :
        /\ \A q \in Q : FLe(q, hi) /\ FLe(lo, q)
        /\ v = FDiv(hi, lo)

\* C16: RewardAndCorrectiveSystem returns -Cs x (50 - q) for q < 50,
\* Rs x (q - 50) for q >= 80 and exactly 0 for 50 <= q < 80, with Cs and Rs the
\* coefficients over the ledger of the call
C16_RewardPiecewise ==
    [][Called({"RewardAndCorrectiveSystem"})
          => LET q == last'.args.quality
                 Cs == CalculateCorrectiveCoefficient(ledger).ret[1]
                 Rs == CalculateRewardCoefficient(ledger).ret[1]
             IN  /\ last'.err = "nil"
                 /\ FLt(q, F(50)) => last'.ret = <<FMul(FNeg(Cs), FSub(F(50), q))>>
                 /\ FGe(q, F(80)) => last'.ret = <<FMul(Rs, FSub(q, F(50)))>>
                 /\ (FGe(q, F(50)) /\ FLt(q, F(80))) => last'.ret = <<F(0)>>]_vars

\* a call at q = 80 with a reward coefficient of 5/4: the result jumps to 75/2
C16_Witness ==
    /\ last.op = "RewardAndCorrectiveSystem"
    /\ last.args.quality = F(80)
    /\ last.ret = <<FMul(FDiv(F(100), F(80)), F(30))>>

\* C17: CalculateRewardCoefficient returns 0 and no error when no record has a
\* quality index of 80 or more, and max/min over those records otherwise
C17_RewardCoefficient ==
    [][Called({"CalculateRewardCoefficient"})
          => /\ last'.err = "nil"
             /\ AtLeast80(ledger) = {} => last'.ret = <<F(0)>>
             /\ AtLeast80(ledger) # {}
                   => IsMaxOverMin(last'.ret[1], AtLeast80(ledger))]_vars

\* records exist, none of them at 80 or more, and the coefficient came back 0
C17_Witness ==
    /\ last.op = "CalculateRewardCoefficient"
    /\ AtMost50(ledger) # {}
    /\ AtLeast80(ledger) = {}
    /\ last.err = "nil" /\ last.ret = <<F(0)>>

\* C18: CalculateCorrectiveCoefficient returns max/min over the records with a
\* quality index of 50 or less, the unscaled max when the minimum is exactly
\* zero, and a no-data error when there is no such record
C18_CorrectiveCoefficient ==
    [][Called({"CalculateCorrectiveCoefficient"})
          => LET Q == AtMost50(ledger)
             IN  /\ Q = {} => last'.err # "nil"
                 /\ (Q # {} /\ F(0) \in Q)
                       => (last'.err = "nil" /\ last'.ret[1] \in Q
                           /\ \A q \in Q : FLe(q, last'.ret[1]))
                 /\ (Q # {} /\ F(0) \notin Q)
                       => (last'.err = "nil" /\ IsMaxOverMin(last'.ret[1], Q))]_vars

\* the items recorded for a store: those of the documents that carry its id
StoreItems(L, storeID) ==
    {<<k, i>> \in (DOMAIN L) \X (1..2) :
        /\ Has(L[k], "store_id") /\ Has(L[k], "items")
        /\ L[k].store_id = storeID
        /\ i <= Len(L[k].items)}

\* C19: CalculateQualityIndex fails with a no-items error, and returns no
\* value, when the store has no items recorded: no invoices with items, or an
\* empty list of wastage indices
C19_NoItemsIsAnError ==
    [][/\ (Called({"CalculateQualityIndex"}) /\ StoreItems(ledger, last'.args.store) = {})
             => (last'.err = "NoItemsFound" /\ last'.ret = NoValue)
       /\ (Called({"CalculateQualityIndexV2"}) /\ last'.args.indices = <<>>)
             => (last'.err # "nil" /\ last'.ret = NoValue)]_vars

\* C20: after every write of a live invoice record by CreateInvoice,
\* UpdateInvoice or CreateOrUpdateInvoice, the stored record's transaction hash
\* is the hash of that record's invoice id, store id, date and timestamp
C20_StoredHashMatchesRecord ==
    [][Called({"CreateInvoice", "UpdateInvoice", "CreateOrUpdateInvoice"})
          => \A k \in Written(ledger, ledger') :
                Len(k) = 1 => ledger'[k].transaction_hash = generateBlockHash(ledger'[k])]_vars

\* C21: when CreateOrUpdateInvoice or UpdateInvoice of the index chaincode
\* replaces a live invoice, the new record's prev_block_hash is the
\* transaction hash of the record it replaced
C21_PrevHashLinksReplaced ==
    [][Called({"CreateOrUpdateInvoice", "UpdateInvoiceV2"})
          => \A k \in Written(ledger, ledger') :
                (Len(k) = 1 /\ k \in DOMAIN ledger)
                   => ledger'[k].prev_block_hash = ledger[k].transaction_hash]_vars

\* ------------------------------------------------------------ BoundIndex
\* BoundIndex applied to float64 arguments: finite ones on both sides of and at
\* the two limits, the infinities and NaN
BoundInputs ==
    {F(-1), F(0), Frac(1, 2), F(50), F(100), Frac(201, 2), F(101), PosInf, NegInf, NaN}

NextBound ==
    \/ DoBoundIndex(BoundInputs)
    \/ TickSecond
    \/ TickDay

SpecBound == Init /\ [][NextBound]_vars

DatedWithin(L, itemKey) ==
    {k \in LiveWith(L, itemKey) : L[k].date.day <= itemKey.expiry_date.day}

\* the invoices of the item key are dated in the 2006-01-02 layout, as is the
\* expiry; one of them is a purchase; those dated on or before the expiry sell
\* no more than they purchase
WellFormedKey(L, itemKey) ==
    /\ itemKey.expiry_date.fmt = "ymd"
    /\ \A k \in ItemSelector(L, itemKey) : Len(k) = 1 /\ L[k].date.fmt = "ymd"
    /\ \E k \in LiveWith(L, itemKey) : L[k].invoice_type = "purchase"
    /\ SumQuantity(L, {k \in DatedWithin(L, itemKey) : L[k].invoice_type = "sales"}, itemKey)
          <= SumQuantity(L, {k \in DatedWithin(L, itemKey) : L[k].invoice_type = "purchase"},
                         itemKey)

\* C23: the accumulation scan of CalculateWastageInRollingWindow deletes every
\* matching invoice dated strictly after the expiry and leaves it out of the
\* totals, keeps and counts every matching invoice dated on or before it, and
\* on well-formed invoices with a purchase and sales within purchases the call
\* completes with a wastage value
C23_ScanDeletesExpiredAndCompletes ==
    [][(Called({"CalculateWastageInRollingWindow"}) /\ WellFormedKey(ledger, last'.args))
          => LET itemKey == last'.args
                 kept == DatedWithin(ledger, itemKey)
             IN  /\ last'.err = "nil"
                 /\ last'.ret =
                       <<SumQuantity(ledger, {k \in kept : ledger[k].invoice_type = "purchase"},
                                     itemKey)
                         - SumQuantity(ledger, {k \in kept : ledger[k].invoice_type = "sales"},
                                       itemKey)>>
                 /\ \A k \in LiveWith(ledger, itemKey) :
                       IF k \in kept THEN k \in DOMAIN ledger' /\ ledger'[k] = ledger[k]
                       ELSE k \notin DOMAIN ledger']_vars

\* the earliest date over the live purchase invoices of the item key
WindowStart(L, itemKey) ==
    LET days == {L[k].date.day : k \in {x \in LiveWith(L, itemKey) :
                                           L[x].invoice_type = "purchase"}}
    IN  CHOOSE d \in days : \A e \in days : d <= e

\* the live invoices of the item key dated from the window start to the day t
InWindow(L, itemKey, t) ==
    {k \in LiveWith(L, itemKey) :
        WindowStart(L, itemKey) <= L[k].date.day /\ L[k].date.day <= t.day}

\* C24: only the invoices dated inside the rolling window, from the earliest
\* purchase of the key to the present, contribute to the wastage totals; one
\* dated before the window start or after the present adds nothing
C24_OnlyWindowContributes ==
    [][(Called(WastageOps) /\ last'.err = "nil")
          => LET itemKey == last'.args
                 inside == InWindow(ledger, itemKey, now)
             IN  last'.ret =
                    <<SumQuantity(ledger, {k \in inside : ledger[k].invoice_type = "purchase"},
                                  itemKey)
                      - SumQuantity(ledger, {k \in inside : ledger[k].invoice_type = "sales"},
                                    itemKey)>>]_vars

\* C25: after InvalidateTransactions(itemID, expiryDate) returns without error
\* no live record is an invoice containing an item of that id and expiry date,
\* records stored under a key other than their invoice_id included
C25_InvalidateLeavesNoneLive ==
    [][(Called({"InvalidateTransactions"}) /\ last'.err = "nil")
          => LiveWith(ledger', last'.args) = {}]_vars

\* the invalid counter of the validity record of (storeID, itemKey), 0 if absent
InvalidCount(L, storeID, itemKey) ==
    IF Absent(L, ValidityKey(storeID, itemKey)) THEN 0
    ELSE GetState(L, ValidityKey(storeID, itemKey)).invalid_transactions

\* C26: a successful MarkTransactionInvalid(storeID, itemKey) acts on a live
\* invoice of that store that contains the item key: that invoice's bytes are
\* under the INVALID_ key, the invalid counter of (storeID, itemKey) is one
\* higher, and the invoice's live record is gone
C26_MarksInvoiceOfTheKey ==
    [][(Called({"MarkTransactionInvalid"}) /\ last'.err = "nil")
          => LET storeID == last'.args.store
                 itemKey == last'.args.key
             IN  \E k \in LiveKeys(ledger) :
                    /\ ledger[k].store_id = storeID
                    /\ HasItem(ledger[k], itemKey)
                    /\ ~Absent(ledger', InvalidKey(storeID, itemKey))
                    /\ GetState(ledger', InvalidKey(storeID, itemKey)) = ledger[k]
                    /\ InvalidCount(ledger', storeID, itemKey)
                          = InvalidCount(ledger, storeID, itemKey) + 1
                    /\ k \notin DOMAIN ledger']_vars

\* the counters of the validity record of (storeID, itemKey), 0 and 0 if absent
Counters(L, storeID, itemKey) ==
    IF Absent(L, ValidityKey(storeID, itemKey)) THEN <<0, 0>>
    ELSE <<GetState(L, ValidityKey(storeID, itemKey)).valid_transactions,
           GetState(L, ValidityKey(storeID, itemKey)).invalid_transactions>>

\* C27: UpdateTransactionValidity(storeID, itemKey, isValid) raises exactly one
\* counter by exactly one, the valid one if isValid and the invalid one
\* otherwise, from 0 and 0 when there is no record, and leaves the other
\* counter and every other ledger key unchanged
C27_OneCounterByOne ==
    [][Called({"UpdateTransactionValidity"})
          => LET storeID == last'.args.store
                 itemKey == last'.args.key
                 before == Counters(ledger, storeID, itemKey)
             IN  /\ last'.err = "nil"
                 /\ ~Absent(ledger', ValidityKey(storeID, itemKey))
                 /\ Counters(ledger', storeID, itemKey) =
                       IF last'.args.valid THEN <<before[1] + 1, before[2]>>
                       ELSE <<before[1], before[2] + 1>>
                 /\ DOMAIN ledger' = DOMAIN ledger \cup {ValidityKey(storeID, itemKey)}
                 /\ \A k \in DOMAIN ledger :
                       k # ValidityKey(storeID, itemKey) => ledger'[k] = ledger[k]]_vars

\* a valid transaction counted on a record that already counts an invalid one,
\* among other documents
C27_Witness ==
    /\ last.op = "UpdateTransactionValidity"
    /\ last.args.valid
    /\ Counters(ledger, last.args.store, last.args.key) = <<1, 1>>
    /\ LiveKeys(ledger) # {}

\* ------------------------------------------------ concurrent invocations
\* two clients invoke UpdateTransactionValidity on one key; the store runs
\* their stub calls in any order, or one invocation as a whole
NextConcurrent ==
    \/ BeginUpdateTransactionValidity({"S1"}, IndexKeys)
    \/ FinishUpdateTransactionValidity
    \/ DoUpdateTransactionValidity({"S1"}, IndexKeys)
    \/ TickSecond
    \/ TickDay

SpecConcurrent == Init /\ [][NextConcurrent]_vars

\* the transactions the validity record of the key counts
Counted == Counters(ledger, "S1", ItemKey("A", YMD(1)))[1]
           + Counters(ledger, "S1", ItemKey("A", YMD(1)))[2]

\* C28: two invocations of UpdateTransactionValidity on one key whose GetState
\* and PutState interleave can both complete with the counters raised by one
\* only; an invocation whose PutState follows its GetState with no other write
\* in between raises them by exactly one, so two serialized ones raise them by
\* two, and the counters never exceed the completed invocations
C28_SerializedCountsEvery ==
    [][Called({"UpdateTransactionValidity"})
          => /\ Counted' <= calls'
             /\ (\A c \in Clients :
                    (pending[c].pc = "read" /\ pending'[c].pc = "done")
                       => pending[c].read = ReadValidity(ledger, pending[c].store,
                                                         pending[c].key))
                   => Counted' = Counted + 1]_vars

\* both clients read the empty record before either wrote: two invocations
\* completed, one transaction counted
C28_Witness ==
    /\ calls = 2
    /\ \A c \in Clients : pending[c].pc = "done"
    /\ Counted = 1

\* ------------------------------------------------- ledger store failures
\* the repository and the index chaincode on a store that can fail its reads,
\* its writes, its deletes or its queries
FaultKinds == {"Get", "Put", "Del", "Query"}
FaultRequests == {SeedRequest}
FaultDocs == {EthicsDoc("I1", YMD(1), "sales")}
FaultPurchase ==
    InvoiceV2("I1", "S1", YMD(1), <<ItemV2("A", 1, YMD(2), "")>>, NoHash, NoTime,
              "purchase", NoHash)
FaultSale ==
    InvoiceV2("A", "S1", YMD(1), <<ItemV2("A", 2, YMD(2), "")>>, NoHash, NoTime,
              "sales", NoHash)
FaultUpdates == {FaultPurchase}
FaultInvoices == {FaultPurchase, FaultSale}

NextFault ==
    \/ SetFault(FaultKinds)
    \/ DoCreateInvoice(FaultRequests)
    \/ DoUpdateInvoice({"I1"}, FaultDocs)
    \/ DoDeleteInvoice({"I1"})
    \/ DoDeleteInvoiceV2({"I1"})
    \/ DoUpdateInvoiceV2(FaultUpdates)
    \/ DoCreateOrUpdateInvoice(FaultInvoices)
    \/ DoUpdateTransactionValidity({"S1"}, RepoKeys)
    \/ TickSecond
    \/ TickDay

SpecFault == Init /\ [][NextFault]_vars

\* C29: in every UpdateInvoice and DeleteInvoice the provenance record with the
\* pre-mutation bytes is written before the live record is overwritten or
\* removed: when the provenance write fails the operation returns an error and
\* the live record is still present and unchanged
C29_FailedProvenanceKeepsLive ==
    [][(/\ Called({"UpdateInvoice", "DeleteInvoice", "DeleteInvoiceV2", "UpdateInvoiceV2"})
        /\ fault = "Put"
        /\ InvoiceKey("I1") \in DOMAIN ledger)
          => /\ last'.err # "nil"
             /\ InvoiceKey("I1") \in DOMAIN ledger'
             /\ ledger'[InvoiceKey("I1")] = ledger[InvoiceKey("I1")]]_vars

\* C30: a failure of a ledger store operation during CreateOrUpdateInvoice,
\* inside GetTotalPurchases, GetTotalSales and MarkTransactionInvalid included,
\* makes CreateOrUpdateInvoice return an error.  GetState and PutState are
\* called on every path; a query is made for every item; a DelState was
\* attempted when the call logged an invalid transaction, which
\* MarkTransactionInvalid does just before its DelState
C30_StoreFailureIsReturned ==
    [][Called({"CreateOrUpdateInvoice"})
          => LET invoice == last'.args
             IN  /\ fault \in {"Get", "Put"} => last'.err # "nil"
                 /\ (fault = "Query" /\ invoice.items # <<>>) => last'.err # "nil"
                 /\ (/\ fault = "Del"
                     /\ \E i \in 1..Len(invoice.items) :
                           LET logged == <<"INVALID_", invoice.store_id,
                                           invoice.items[i].item_id, invoice.items[i].expiry_date>>
                           IN  logged \in (DOMAIN ledger') \ (DOMAIN ledger))
                       => last'.err # "nil"]_vars

\* C31: every query iterator an operation opened is closed by the time the
\* operation returns, on the final return and on each error return
C31_IteratorsClosedOnReturn ==
    iterators.returned => iterators.open = {}

\* an error return of an operation that had opened both of its iterators
C31_Witness ==
    iterators.returned /\ iterators.failed /\ iterators.opened = 2

\* the rolling window over sales and purchases of one store, with deletions
NoPurchaseRequests ==
    [id : {"I1", "I2"}, store : {"S1"}, date : {YMD(1), BadDate},
     type : {"purchase", "sales"}, items : {<<Item("A", 1, YMD(2), TRUE, "")>>}]

NoPurchaseKeys == {ItemKey("A", YMD(2)), ItemKey("A", BadDate)}

NextNoPurchase ==
    \/ DoCreateInvoice(NoPurchaseRequests)
    \/ DoDeleteInvoice(WastageIDs)
    \/ DoCalculateWastageInRollingWindow(NoPurchaseKeys)
    \/ DoCalculateWastageInRollingWindowV0(NoPurchaseKeys)
    \/ TickSecond

SpecNoPurchase == Init /\ [][NextNoPurchase]_vars

C33_KeyIsOwnInvoiceID ==
    \A k \in LiveKeys(ledger) : DeserializeFromJSON(ledger[k]).invoice_id = k[1]

\* C34: the totals of GetTotalPurchases and GetTotalSales are those of the
\* live invoices: an invoice removed by DeleteInvoice or MarkTransactionInvalid
\* contributes nothing through its DELETED_ or INVALID_ record
C34_TotalsCountLiveOnly ==
    \A storeID \in StoreIDs, itemKey \in IndexKeys :
        /\ GetTotalPurchases("none", ledger, storeID, itemKey)
              = F(LiveTotal(ledger, storeID, itemKey, "purchase"))
        /\ GetTotalSales("none", ledger, storeID, itemKey)
              = F(LiveTotal(ledger, storeID, itemKey, "sales"))

\* C35: RewardAndCorrectiveSystem returns no positive amount for a quality
\* index below 50 and no negative amount for one at or above 80, whatever
\* quality records are stored
C35_AmountHasTheSignOfItsZone ==
    [][(Called({"RewardAndCorrectiveSystem"}) /\ last'.err = "nil")
          => /\ FLt(last'.args.quality, F(50)) => ~FGt(last'.ret[1], F(0))
             /\ FGe(last'.args.quality, F(80)) => ~FLt(last'.ret[1], F(0))]_vars

\* C36: an operation issued for one store leaves the live invoices of every
\* other store unchanged, also when both stores use the same invoice id
C36_OtherStoresUntouched ==
    [][Called({"CreateInvoice"})
          => \A k \in LiveKeys(ledger) :
                ledger[k].store_id # last'.args.store
                   => k \in DOMAIN ledger' /\ ledger'[k] = ledger[k]]_vars

\* the ledger holds no invoice under the id, and for none of the item keys of
\* the invoice a validity, quality, wastage or invalidation record of the store
\* or a document the totals would count
NoPriorRecords(L, invoice) ==
    /\ Absent(L, InvoiceKey(invoice.invoice_id))
    /\ \A i \in 1..Len(invoice.items) :
          LET itemKey == KeyOf(invoice.items[i])
          IN  /\ Absent(L, ValidityKey(invoice.store_id, itemKey))
              /\ Absent(L, QualityIndexKey(invoice.store_id, itemKey))
              /\ Absent(L, WastageIndexKey(invoice.store_id, itemKey))
              /\ Absent(L, InvalidKey(invoice.store_id, itemKey))
              /\ \A k \in DOMAIN L, type \in {"purchase", "sales"} :
                    ~TotalsSelector(L[k], invoice.store_id, itemKey, type)

\* C37: on a ledger with no prior records for the store and item key,
\* CreateOrUpdateInvoice of an unexpired purchase invoice with items of positive
\* quantity returns without error, with the invoice live and the
\* quality-index, wastage-index and transaction-validity records written
C37_FirstPurchaseIsAccepted ==
    [][(/\ Called({"CreateOrUpdateInvoice"})
        /\ last'.args.invoice_type = "purchase"
        /\ last'.args.items # <<>>
        /\ \A i \in 1..Len(last'.args.items) :
              /\ last'.args.items[i].quantity > 0
              /\ last'.args.items[i].expiry_date.fmt = "ymd"
              /\ now.day <= last'.args.items[i].expiry_date.day
        /\ NoPriorRecords(ledger, last'.args))
          => /\ last'.err = "nil"
             /\ InvoiceKey(last'.args.invoice_id) \in DOMAIN ledger'
             /\ \A i \in 1..Len(last'.args.items) :
                   LET itemKey == KeyOf(last'.args.items[i])
                   IN  /\ ValidityKey(last'.args.store_id, itemKey) \in DOMAIN ledger'
                       /\ QualityIndexKey(last'.args.store_id, itemKey) \in DOMAIN ledger'
                       /\ WastageIndexKey(last'.args.store_id, itemKey) \in DOMAIN ledger']_vars

====
